---- MODULE Spec2Model ----
(***************************************************************************)
(* State machine of BlockSystem (src/js/systems/BlockSystem.js): the block *)
(* store, the support validation, the cascade removal and the placement    *)
(* operations.                                                             *)
(*                                                                         *)
(* Lengths (block heights, world Y) are kept in hundredths of a unit, so   *)
(* blockSize 1.0 is 100, the thin base 0.22 is 22 and landBaseY 0.5 is 50. *)
(* Every sum the code forms on these values that the properties below      *)
(* speak about is exact in IEEE doubles as well (0.22 + (1.0 - 0.22) is    *)
(* 1.0, 0.5 + 1.0 + 0.5 is 2.0).                                           *)
(*                                                                         *)
(* A block id `${x}_${yLevel}_${z}` is the tuple <<x, yLevel, z>>.         *)
(***************************************************************************)
EXTENDS Integers, FiniteSets, Sequences, TLC

\* ---------------------------------------------------------------- bounds
\* highest level an operation may target
MaxLevel == 2
\* largest number of stored blocks a placement may produce
MaxBlocks == 3
\* the cells of a line of blocks, long enough to outrun the search of hasIndirectSupport
MaxChain == 23
\* the clock of the page stops here (ms); the 50-row yields and the 20000-point
\* chunks one grid generation goes through
MaxTime == 17000
MaxRowYields == 1
MaxChunks == 2
\* the cells of the row of blocks BlockBuilder is given, more than its cascade limit
MaxRow == 101

\* the (x, z) columns the operations are driven on
Columns == {<<0, 0>>, <<1, 0>>, <<0, 1>>}
\* the grids handed to setupGrid: sets of (gridX, gridY)
GridChoices == {{<<0, 0>>, <<1, 0>>}}
Levels == 0..MaxLevel
Cells == {<<c[1], l, c[2]>> : c \in Columns, l \in Levels}

\* ------------------------------------------------------ program constants
blockSize == 100
landBaseY == 50
thinHeight == 22
\* the search giving up one cell later
VisitedLimit_oneMore == 20 + 1
VisitedLimit == 20

VARIABLES
    blocks,              \* this.blocks: id -> blockData
    enableBlockPhysics,  \* this.enableBlockPhysics
    gridData,            \* this.gridData, as the set of (gridX, gridY)
    blockCount,          \* text of the #blockCount element (updateStats)
    last,                \* the operation that ran last and what it returned
    gridItems,           \* window.gridGenerator: the grid cells whose blockHeight is > 0
    app,                 \* the stage machine of app.js with its timers and the grid generation
    pass                 \* the pass of the cascade loop that is running, statement by statement

vars == <<blocks, enableBlockPhysics, gridData, blockCount, last, gridItems, app, pass>>

\* gridItems when window.gridGenerator is not set (BlockSystem on its own): a
\* value no set of grid cells equals
NoGenerator == {<<-1, -1>>}
\* app when no App object drives the page
NoApp == "no app"

NoCell == <<-1, -1, -1>>
EmptyStore == [i \in {} |-> 0]

\* pass when removeUnsupportedBlocks is not running: the store at the call and at
\* the start of the pass, the blocks forEach has visited, the list
\* unsupportedBlocks, removedCount and hasUnsupported
NoPass == [phase |-> "idle", call |-> EmptyStore, start |-> EmptyStore, scanned |-> {},
           unsupportedBlocks |-> <<>>, removedCount |-> 0, hasUnsupported |-> TRUE]

\* Map.has / Map.set / Map.delete on a store b
Has(b, id) == id \in DOMAIN b
Put(b, id, rec) == [i \in DOMAIN b \cup {id} |-> IF i = id THEN rec ELSE b[i]]
Delete(b, ids) == [i \in DOMAIN b \ ids |-> b[i]]

\* the blockData records of column (x, z), found as the code finds them:
\* by their position fields
ColumnIds(b, x, z) == {i \in DOMAIN b : b[i].x = x /\ b[i].z = z}

Max(S) == CHOOSE m \in S : \A n \in S : n <= m

\* ------------------------------------------------------- support checking
isGroundLevel(g, x, z) == <<x, z>> \in g

getAdjacentPositions(x, yLevel, z) ==
    {<<x + 1, yLevel, z>>, <<x - 1, yLevel, z>>,
     <<x, yLevel, z + 1>>, <<x, yLevel, z - 1>>}

RECURSIVE hasIndirectSupport(_, _, _, _, _, _)
hasIndirectSupport(b, g, x, yLevel, z, visited) ==
    LET blockId == <<x, yLevel, z>> IN
    IF blockId \in visited \/ Cardinality(visited) > VisitedLimit
    THEN FALSE
    ELSE LET v2 == visited \cup {blockId} IN
         \/ (yLevel = 0 /\ isGroundLevel(g, x, z))
         \/ Has(b, <<x, yLevel - 1, z>>)
         \/ \E pos \in getAdjacentPositions(x, yLevel, z) :
                /\ Has(b, pos)
                /\ pos \notin v2
                /\ hasIndirectSupport(b, g, pos[1], pos[2], pos[3], v2)

\* hasSupport with the below-block counted only when it is itself supported
hasSupport_chainedBelow(b, g, x, yLevel, z) ==
    \/ /\ Has(b, <<x, yLevel - 1, z>>)
       /\ hasIndirectSupport(b, g, x, yLevel - 1, z, {})
    \/ \E pos \in getAdjacentPositions(x, yLevel, z) :
           /\ Has(b, pos)
           /\ hasIndirectSupport(b, g, pos[1], pos[2], pos[3], {<<x, yLevel, z>>})

\* hasSupport with any occupied neighbour counted, supported or not
hasSupport_anyNeighbour(b, g, x, yLevel, z) ==
    \/ Has(b, <<x, yLevel - 1, z>>)
    \/ \E pos \in getAdjacentPositions(x, yLevel, z) : Has(b, pos)

\* hasSupport looking at yLevel + 1 as well as yLevel - 1
hasSupport_aboveCounts(b, g, x, yLevel, z) ==
    \/ Has(b, <<x, yLevel - 1, z>>)
    \/ Has(b, <<x, yLevel + 1, z>>)
    \/ \E pos \in getAdjacentPositions(x, yLevel, z) :
           /\ Has(b, pos)
           /\ hasIndirectSupport(b, g, pos[1], pos[2], pos[3], {<<x, yLevel, z>>})

hasSupport(b, g, x, yLevel, z) ==
    \/ Has(b, <<x, yLevel - 1, z>>)
    \/ \E pos \in getAdjacentPositions(x, yLevel, z) :
           /\ Has(b, pos)
           /\ hasIndirectSupport(b, g, pos[1], pos[2], pos[3], {<<x, yLevel, z>>})

\* validateBlockPlacement without the ground rule
validateBlockPlacement_noGround(b, g, x, yLevel, z) ==
    hasSupport(b, g, x, yLevel, z)

validateBlockPlacement(b, g, x, yLevel, z) ==
    IF yLevel = 0 /\ isGroundLevel(g, x, z)
    THEN TRUE
    ELSE hasSupport(b, g, x, yLevel, z)

\* ---------------------------------------------------------------- cascade
findUnsupportedBlocks(b, g) ==
    {i \in DOMAIN b : ~hasSupport(b, g, b[i].x, b[i].yLevel, b[i].z)}

\* the while loop of removeUnsupportedBlocks: [blocks, removed]
RECURSIVE cascadeLoop(_, _, _)
cascadeLoop(b, g, removedCount) ==
    LET unsupportedBlocks == findUnsupportedBlocks(b, g) IN
    IF unsupportedBlocks = {}
    THEN [blocks |-> b, removed |-> removedCount]
    ELSE cascadeLoop(Delete(b, {b[i].id : i \in unsupportedBlocks}), g,
                     removedCount + Cardinality(unsupportedBlocks))

\* removeUnsupportedBlocks making one pass instead of looping
removeUnsupportedBlocks_onePass(b, g, physics) ==
    IF ~physics
    THEN [blocks |-> b, removed |-> 0]
    ELSE LET unsupportedBlocks == findUnsupportedBlocks(b, g) IN
         [blocks |-> Delete(b, unsupportedBlocks),
          removed |-> Cardinality(unsupportedBlocks)]

\* removeUnsupportedBlocks running its loop whatever the physics flag says
removeUnsupportedBlocks_ignoresFlag(b, g, physics) ==
    cascadeLoop(b, g, 0)

\* removeUnsupportedBlocks: returns early, removing nothing, without physics
removeUnsupportedBlocks(b, g, physics) ==
    IF ~physics
    THEN [blocks |-> b, removed |-> 0]
    ELSE cascadeLoop(b, g, 0)

\* ------------------------------------------------------------- placement
calculateYPosition(b, x, z, yLevel, blockHeight) ==
    LET RECURSIVE acc(_)
        acc(level) ==
            IF level >= yLevel THEN 0
            ELSE (IF Has(b, <<x, level, z>>) THEN b[<<x, level, z>>].height
                  ELSE blockSize) + acc(level + 1)
    IN landBaseY + acc(0) + blockHeight \div 2

\* the base left thin
inflateBase_none(b, x, z) == b

\* the thin base of column (x, z) inflated to a full unit (createBlockAt, yLevel 1)
inflateBase(b, x, z) ==
    LET baseId == <<x, 0, z>> IN
    IF Has(b, baseId) /\ b[baseId].height < blockSize
    THEN LET newHeight == b[baseId].height + (blockSize - b[baseId].height) IN
         [b EXCEPT ![baseId].height = newHeight,
                   ![baseId].meshY = landBaseY + newHeight \div 2]
    ELSE b

\* createBlockAt falling through after the failed validation
createBlockAt_noReturn(b, g, physics, x, z, yLevel, skipValidation) ==
    LET blockId == <<x, yLevel, z>>
        isEmptyColumn == ColumnIds(b, x, z) = {}
        height == IF yLevel = 0 /\ isEmptyColumn THEN thinHeight ELSE blockSize
        b1 == IF ~(yLevel = 0 /\ isEmptyColumn) /\ yLevel = 1
              THEN inflateBase(b, x, z) ELSE b
        yPosition == calculateYPosition(b1, x, z, yLevel, height)
        blockData == [x |-> x, y |-> yPosition, z |-> z, yLevel |-> yLevel,
                      height |-> height, meshY |-> yPosition, id |-> blockId]
    IN [blocks |-> Put(b1, blockId, blockData), accepted |-> TRUE]

\* createBlockAt(x, z, yLevel, {skipValidation}): [blocks, accepted]
createBlockAt(b, g, physics, x, z, yLevel, skipValidation) ==
    IF ~skipValidation /\ physics /\ ~validateBlockPlacement(b, g, x, yLevel, z)
    THEN [blocks |-> b, accepted |-> FALSE]
    ELSE LET blockId == <<x, yLevel, z>>
             isEmptyColumn == ColumnIds(b, x, z) = {}
             height == IF yLevel = 0 /\ isEmptyColumn THEN thinHeight ELSE blockSize
             b1 == IF ~(yLevel = 0 /\ isEmptyColumn) /\ yLevel = 1
                   THEN inflateBase(b, x, z) ELSE b
             yPosition == calculateYPosition(b1, x, z, yLevel, height)
             blockData == [x |-> x, y |-> yPosition, z |-> z, yLevel |-> yLevel,
                           height |-> height, meshY |-> yPosition, id |-> blockId]
         IN [blocks |-> Put(b1, blockId, blockData), accepted |-> TRUE]

Size(b) == Cardinality(DOMAIN b)

\* what is kept of the last call: its name, the block a removal addressed, the
\* value createBlockAt returned, the count the cascade returned, and, for a
\* removeUnsupportedBlocks that directly follows another one, the count of that
\* earlier call (-1 otherwise)
NoOp(op) == [op |-> op, cell |-> NoCell, accepted |-> TRUE, removed |-> 0, prev |-> -1]

\* updateBlockData(gridPoint.id, 1, color) at the end of an accepted createBlockAt:
\* only for yLevel 0, with a gridGenerator, on a cell this.gridData holds
markItem(items, g, x, z, yLevel) ==
    IF items # NoGenerator /\ yLevel = 0 /\ <<x, z>> \in g
    THEN items \cup {<<x, z>>}
    ELSE items

\* updateBlockData(gridPoint.id, 0, '#ffffff') on the grid cell of column (x, z)
clearItem(items, g, x, z) ==
    IF items # NoGenerator /\ <<x, z>> \in g
    THEN items \ {<<x, z>>}
    ELSE items

Init ==
    /\ blocks = EmptyStore
    /\ enableBlockPhysics = TRUE
    /\ gridData = {}
    /\ blockCount = 0
    /\ last = NoOp("constructor")
    /\ gridItems = NoGenerator
    /\ app = NoApp
    /\ pass = NoPass

SetupGrid ==
    \E g \in GridChoices :
        /\ gridData' = g
        /\ last' = NoOp("setupGrid")
        /\ UNCHANGED <<blocks, enableBlockPhysics, blockCount, gridItems, app, pass>>

\* a placement that ends in createBlockAt(x, z, yLevel, options)
Place(op, x, z, yLevel, skipValidation) ==
    LET r == createBlockAt(blocks, gridData, enableBlockPhysics, x, z, yLevel, skipValidation) IN
    /\ <<x, z>> \in Columns
    /\ yLevel \in Levels
    /\ Size(r.blocks) <= MaxBlocks
    /\ blocks' = r.blocks
    /\ blockCount' = IF r.accepted THEN Size(r.blocks) ELSE blockCount
    /\ last' = [NoOp(op) EXCEPT !.accepted = r.accepted]
    /\ UNCHANGED <<enableBlockPhysics, gridData>>
    /\ gridItems' = IF r.accepted THEN markItem(gridItems, gridData, x, z, yLevel) ELSE gridItems
    /\ UNCHANGED <<app, pass>>

CreateBlockAt ==
    \E c \in Cells, skipValidation \in BOOLEAN :
        Place("createBlockAt", c[1], c[3], c[2], skipValidation)

\* removeBlockByMesh(blockMesh): the mesh of a stored block
RemoveBlockByMesh ==
    \E id \in DOMAIN blocks :
        LET blockData == blocks[id]
            r == removeUnsupportedBlocks(Delete(blocks, {blockData.id}),
                                         gridData, enableBlockPhysics)
        IN /\ blocks' = r.blocks
           /\ blockCount' = Size(r.blocks)
           /\ last' = [NoOp("removeBlockByMesh") EXCEPT !.cell = id, !.removed = r.removed]
           /\ UNCHANGED <<enableBlockPhysics, gridData>>
           /\ gridItems' = clearItem(gridItems, gridData, blockData.x, blockData.z)
           /\ UNCHANGED <<app, pass>>

\* removeBlock running the cascade on an empty column as well
RemoveBlock_alwaysCascade ==
    \E gp \in gridData :
        LET col == ColumnIds(blocks, gp[1], gp[2])
            highestBlockId == IF col = {} THEN <<gp[1], -1, gp[2]>>
                              ELSE CHOOSE i \in col : blocks[i].yLevel = Max({blocks[j].yLevel : j \in col})
            r == removeUnsupportedBlocks(Delete(blocks, {highestBlockId} \cap DOMAIN blocks),
                                         gridData, enableBlockPhysics)
        IN /\ blocks' = r.blocks
           /\ blockCount' = Size(r.blocks)
           /\ last' = [NoOp("removeBlock") EXCEPT !.cell = highestBlockId,
                                                   !.removed = r.removed]
           /\ UNCHANGED <<enableBlockPhysics, gridData>>
           /\ gridItems' = IF ColumnIds(r.blocks, gp[1], gp[2]) = {}
                           THEN clearItem(gridItems, gridData, gp[1], gp[2])
                           ELSE gridItems
           /\ UNCHANGED <<app, pass>>

\* removeBlock(gridPoint): the highest block of the column of a grid point
RemoveBlock ==
    \E gp \in gridData :
        LET col == ColumnIds(blocks, gp[1], gp[2]) IN
        IF col = {}
        THEN /\ last' = [NoOp("removeBlock") EXCEPT !.cell = <<gp[1], -1, gp[2]>>]
             /\ UNCHANGED <<blocks, enableBlockPhysics, gridData, blockCount, gridItems, app, pass>>
        ELSE LET highestLevel == Max({blocks[i].yLevel : i \in col})
                 highestBlockId == CHOOSE i \in col : blocks[i].yLevel = highestLevel
                 r == removeUnsupportedBlocks(Delete(blocks, {highestBlockId}),
                                              gridData, enableBlockPhysics)
             IN /\ blocks' = r.blocks
                /\ blockCount' = Size(r.blocks)
                /\ last' = [NoOp("removeBlock") EXCEPT !.cell = highestBlockId,
                                                        !.removed = r.removed]
                /\ UNCHANGED <<enableBlockPhysics, gridData>>
                /\ gridItems' = IF ColumnIds(r.blocks, gp[1], gp[2]) = {}
                                THEN clearItem(gridItems, gridData, gp[1], gp[2])
                                ELSE gridItems
                /\ UNCHANGED <<app, pass>>

ClearAllBlocks ==
    /\ blocks' = EmptyStore
    /\ blockCount' = 0
    /\ last' = NoOp("clearAllBlocks")
    /\ UNCHANGED <<enableBlockPhysics, gridData>>
    /\ gridItems' = IF gridItems = NoGenerator THEN gridItems ELSE gridItems \ gridData
    /\ UNCHANGED <<app, pass>>

RemoveUnsupportedBlocks ==
    LET r == removeUnsupportedBlocks(blocks, gridData, enableBlockPhysics) IN
    /\ blocks' = r.blocks
    /\ blockCount' = IF r.removed > 0 THEN Size(r.blocks) ELSE blockCount
    /\ last' = [NoOp("removeUnsupportedBlocks") EXCEPT
                    !.removed = r.removed,
                    !.prev = IF last.op = "removeUnsupportedBlocks" THEN last.removed ELSE -1]
    /\ UNCHANGED <<enableBlockPhysics, gridData, gridItems, app, pass>>

\* toggleBlockPhysics flipping the flag without the cascade
ToggleBlockPhysics_noCascade ==
    /\ enableBlockPhysics' = ~enableBlockPhysics
    /\ last' = NoOp("toggleBlockPhysics")
    /\ UNCHANGED <<blocks, gridData, blockCount, gridItems, app, pass>>

ToggleBlockPhysics ==
    LET r == removeUnsupportedBlocks(blocks, gridData, ~enableBlockPhysics) IN
    /\ enableBlockPhysics' = ~enableBlockPhysics
    /\ blocks' = r.blocks
    /\ blockCount' = IF r.removed > 0 THEN Size(r.blocks) ELSE blockCount
    /\ last' = [NoOp("toggleBlockPhysics") EXCEPT !.removed = r.removed]
    /\ UNCHANGED <<gridData, gridItems, app, pass>>

Next ==
    \/ SetupGrid
    \/ CreateBlockAt
    \/ RemoveBlockByMesh
    \/ RemoveBlock
    \/ ClearAllBlocks
    \/ RemoveUnsupportedBlocks
    \/ ToggleBlockPhysics

Spec == Init /\ [][Next]_vars

\* ------------------------------------------- the derived placement operations
\* while (this.blocks.has(`${x}_${target}_${z}`)) target++
RECURSIVE scanUp(_, _, _, _)
scanUp(b, x, z, target) ==
    IF Has(b, <<x, target, z>>) THEN scanUp(b, x, z, target + 1) ELSE target

\* while (target >= 0) { if (!this.blocks.has(id)) break; target--; }
RECURSIVE scanDown(_, _, _, _)
scanDown(b, x, z, target) ==
    IF target >= 0 /\ Has(b, <<x, target, z>>) THEN scanDown(b, x, z, target - 1) ELSE target

\* placeAboveBlock going one above the highest block of the column
placeAboveTarget_highestPlusOne(b, id) ==
    Max({b[i].yLevel : i \in ColumnIds(b, b[id].x, b[id].z)}) + 1

\* the target level of placeAboveBlock(existingBlockData)
placeAboveTarget(b, id) == scanUp(b, b[id].x, b[id].z, b[id].yLevel + 1)

\* placeBelowBlock taking the lowest free level of the column
placeBelowTarget_lowestFree(b, id) ==
    LET t == scanUp(b, b[id].x, b[id].z, 0) IN
    IF t < b[id].yLevel THEN t ELSE -1

\* the target level of placeBelowBlock(existingBlockData); below 0: no placement
placeBelowTarget(b, id) == scanDown(b, b[id].x, b[id].z, b[id].yLevel - 1)

\* the faces placeAdjacentBlock knows; "none" is face = null
Faces == {"east", "west", "north", "south"}
\* click offsets from the block's centre, in hundredths (clickPoint - blockPos)
ClickOffsets == {-50, 0, 20}
\* the calls of placeAdjacentBlock: <<relativeX, relativeZ, face>>; the offsets
\* are read only when no face is given
AdjacentInputs ==
    {<<0, 0, f>> : f \in Faces}
        \cup {<<rx, rz, "none">> : rx \in ClickOffsets, rz \in ClickOffsets}

Abs(n) == IF n < 0 THEN -n ELSE n

\* the column placeAdjacentBlock moves to: <<newX, newZ>>
adjacentColumn(x, z, relativeX, relativeZ, face) ==
    IF face = "east" THEN <<x + 1, z>>
    ELSE IF face = "west" THEN <<x - 1, z>>
    ELSE IF face = "north" THEN <<x, z + 1>>
    ELSE IF face = "south" THEN <<x, z - 1>>
    ELSE IF Abs(relativeX) > Abs(relativeZ)
         THEN <<x + (IF relativeX > 0 THEN 1 ELSE -1), z>>
         ELSE <<x, z + (IF relativeZ > 0 THEN 1 ELSE -1)>>

\* placeAdjacentBlock keeping the reference's level whatever the target column holds
placeAdjacentTarget_sameLevel(b, id, relativeX, relativeZ, face) ==
    LET col == adjacentColumn(b[id].x, b[id].z, relativeX, relativeZ, face)
    IN <<col[1], b[id].yLevel, col[2]>>

\* the cell placeAdjacentBlock hands to createBlockAt
placeAdjacentTarget(b, id, relativeX, relativeZ, face) ==
    LET col == adjacentColumn(b[id].x, b[id].z, relativeX, relativeZ, face)
        newX == col[1]
        newZ == col[2]
        sameLevel == b[id].yLevel
        newLevel == IF Has(b, <<newX, sameLevel, newZ>>)
                    THEN Max({-1} \cup {b[i].yLevel : i \in ColumnIds(b, newX, newZ)}) + 1
                    ELSE sameLevel
    IN <<newX, newLevel, newZ>>

\* placeAtLowestAvailableAtGrid going one above the highest block of the column
placeLowestTarget_top(b, x, z) ==
    Max({-1} \cup {b[i].yLevel : i \in ColumnIds(b, x, z)}) + 1

\* the target level of placeAtLowestAvailableAtGrid(gridPoint)
placeLowestTarget(b, x, z) == scanUp(b, x, z, 0)

\* placeBelowAtGrid validating the gap it fills
placeBelowAtGridTarget_validated(b, x, z) ==
    LET occupied == {b[i].yLevel : i \in ColumnIds(b, x, z)}
        highest == Max({-1} \cup occupied)
        free == {l \in 0..(highest - 1) : l \notin occupied}
    IN [level |-> IF highest < 0 THEN 0 ELSE Max({-1} \cup free), skipValidation |-> FALSE]

\* placeBelowAtGrid(gridPoint): [level, skipValidation]; level below 0: no placement
placeBelowAtGridTarget(b, x, z) ==
    LET occupied == {b[i].yLevel : i \in ColumnIds(b, x, z)}
        highest == Max({-1} \cup occupied)
        RECURSIVE down(_)
        down(target) == IF target >= 0 /\ target \in occupied THEN down(target - 1) ELSE target
    IN IF highest < 0
       THEN [level |-> 0, skipValidation |-> FALSE]
       ELSE [level |-> down(highest - 1), skipValidation |-> TRUE]

\* a derived placement: createBlockAt on the resolved cell, the cell kept in last
PlaceOp(op, x, z, yLevel, skipValidation) ==
    LET r == createBlockAt(blocks, gridData, enableBlockPhysics, x, z, yLevel, skipValidation) IN
    /\ <<x, z>> \in Columns
    /\ yLevel \in Levels
    /\ Size(r.blocks) <= MaxBlocks
    /\ blocks' = r.blocks
    /\ blockCount' = IF r.accepted THEN Size(r.blocks) ELSE blockCount
    /\ last' = [NoOp(op) EXCEPT !.accepted = r.accepted, !.cell = <<x, yLevel, z>>]
    /\ UNCHANGED <<enableBlockPhysics, gridData>>
    /\ gridItems' = IF r.accepted THEN markItem(gridItems, gridData, x, z, yLevel) ELSE gridItems
    /\ UNCHANGED <<app, pass>>

\* an operation that found no target and returned
Skip(op) ==
    /\ last' = NoOp(op)
    /\ UNCHANGED <<blocks, enableBlockPhysics, gridData, blockCount, gridItems, app, pass>>

PlaceAboveBlock ==
    \E id \in DOMAIN blocks, skipValidation \in BOOLEAN :
        PlaceOp("placeAboveBlock", blocks[id].x, blocks[id].z,
                placeAboveTarget(blocks, id), skipValidation)

PlaceBelowBlock ==
    \E id \in DOMAIN blocks, skipValidation \in BOOLEAN :
        LET target == placeBelowTarget(blocks, id) IN
        IF target < 0
        THEN Skip("placeBelowBlock")
        ELSE PlaceOp("placeBelowBlock", blocks[id].x, blocks[id].z, target, skipValidation)

PlaceAdjacentBlock ==
    \E id \in DOMAIN blocks, in \in AdjacentInputs :
        LET t == placeAdjacentTarget(blocks, id, in[1], in[2], in[3]) IN
        PlaceOp("placeAdjacentBlock", t[1], t[3], t[2], FALSE)

PlaceAtLowestAvailableAtGrid ==
    \E gp \in gridData :
        PlaceOp("placeAtLowestAvailableAtGrid", gp[1], gp[2],
                placeLowestTarget(blocks, gp[1], gp[2]), FALSE)

PlaceBelowAtGrid ==
    \E gp \in gridData :
        LET t == placeBelowAtGridTarget(blocks, gp[1], gp[2]) IN
        IF t.level < 0
        THEN Skip("placeBelowAtGrid")
        ELSE PlaceOp("placeBelowAtGrid", gp[1], gp[2], t.level, t.skipValidation)

\* the operations the click handlers reach, with the physics button
OpsNext ==
    \/ SetupGrid
    \/ PlaceAboveBlock
    \/ PlaceBelowBlock
    \/ PlaceAdjacentBlock
    \/ PlaceAtLowestAvailableAtGrid
    \/ PlaceBelowAtGrid
    \/ RemoveBlockByMesh
    \/ RemoveBlock
    \/ ToggleBlockPhysics

OpsSpec == Init /\ [][OpsNext]_vars

\* the downward placements next to createBlockAt on any cell, which leaves
\* columns with unoccupied levels under their blocks
BelowNext ==
    \/ SetupGrid
    \/ CreateBlockAt
    \/ PlaceBelowBlock
    \/ PlaceBelowAtGrid
    \/ RemoveBlockByMesh
    \/ ToggleBlockPhysics

BelowSpec == Init /\ [][BelowNext]_vars

\* ------------------------------------ the click operations on two levels
\* the cells of the three columns on levels 0 and 1, with no limit on the blocks
UserCells == {<<col[1], l, col[2]>> : col \in Columns, l \in {0, 1}}

\* a click operation that ends in createBlockAt on a cell of the two levels
UserPlace(op, x, z, yLevel, skipValidation) ==
    LET r == createBlockAt(blocks, gridData, enableBlockPhysics, x, z, yLevel, skipValidation) IN
    /\ <<x, yLevel, z>> \in UserCells
    /\ blocks' = r.blocks
    /\ blockCount' = IF r.accepted THEN Size(r.blocks) ELSE blockCount
    /\ last' = [NoOp(op) EXCEPT !.accepted = r.accepted, !.cell = <<x, yLevel, z>>]
    /\ gridItems' = IF r.accepted THEN markItem(gridItems, gridData, x, z, yLevel) ELSE gridItems
    /\ UNCHANGED <<enableBlockPhysics, gridData, app, pass>>

\* the clicks of build mode, as handleClick and handleBlockClick call them;
\* physics is left enabled
UserNext ==
    \/ SetupGrid
    \/ \E id \in DOMAIN blocks :
          UserPlace("placeAboveBlock", id[1], id[3], placeAboveTarget(blocks, id), FALSE)
    \/ \E id \in DOMAIN blocks :
          /\ placeBelowTarget(blocks, id) >= 0
          /\ UserPlace("placeBelowBlock", id[1], id[3], placeBelowTarget(blocks, id), TRUE)
    \/ \E id \in DOMAIN blocks, in \in AdjacentInputs :
          LET t == placeAdjacentTarget(blocks, id, in[1], in[2], "none") IN
          /\ in[3] = "none"
          /\ UserPlace("placeAdjacentBlock", t[1], t[3], t[2], FALSE)
    \/ \E gp \in gridData :
          UserPlace("placeAtLowestAvailableAtGrid", gp[1], gp[2],
                    placeLowestTarget(blocks, gp[1], gp[2]), FALSE)
    \/ \E gp \in gridData :
          LET t == placeBelowAtGridTarget(blocks, gp[1], gp[2]) IN
          /\ t.level >= 0
          /\ UserPlace("placeBelowAtGrid", gp[1], gp[2], t.level, t.skipValidation)
    \/ RemoveBlockByMesh
    \/ RemoveBlock

UserSpec == Init /\ [][UserNext]_vars

\* ------------------------------------ the two-column scenario (four blocks)
QuadGrid == {<<0, 0>>, <<1, 0>>}
QuadCells == {<<0, 0, 0>>, <<1, 0, 0>>, <<0, 1, 0>>, <<1, 1, 0>>}

\* createBlockAt(x, z, yLevel) on a cell of the two columns
QuadPlace ==
    \E c \in QuadCells :
        LET r == createBlockAt(blocks, gridData, enableBlockPhysics, c[1], c[3], c[2], FALSE) IN
        /\ blocks' = r.blocks
        /\ blockCount' = IF r.accepted THEN Size(r.blocks) ELSE blockCount
        /\ last' = [NoOp("createBlockAt") EXCEPT !.accepted = r.accepted, !.cell = c]
        /\ UNCHANGED <<enableBlockPhysics, gridData>>
        /\ gridItems' = IF r.accepted THEN markItem(gridItems, gridData, c[1], c[3], c[2])
                        ELSE gridItems
        /\ UNCHANGED <<app, pass>>

QuadNext ==
    \/ SetupGrid
    \/ QuadPlace
    \/ RemoveBlockByMesh
    \/ RemoveBlock

QuadSpec == Init /\ [][QuadNext]_vars

\* ------------------------------ the stacking operations: addBlock and its callers
\* addBlock(gridPoint, yLevel) with x = gridPoint.gridX, z = gridPoint.gridY:
\* [blocks, accepted]
addBlock(b, g, physics, x, z, yLevel) ==
    IF physics /\ ~validateBlockPlacement(b, g, x, yLevel, z)
    THEN [blocks |-> b, accepted |-> FALSE]
    ELSE LET blockId == <<x, yLevel, z>>
             isEmptyColumn2 == ColumnIds(b, x, z) = {}
             height == IF yLevel = 0 /\ isEmptyColumn2 THEN thinHeight ELSE blockSize
             b1 == IF ~(yLevel = 0 /\ isEmptyColumn2) /\ yLevel = 1
                   THEN inflateBase(b, x, z) ELSE b
             yPosition == calculateYPosition(b1, x, z, yLevel, height)
             blockData == [x |-> x, y |-> yPosition, z |-> z, yLevel |-> yLevel,
                           height |-> height, meshY |-> yPosition, id |-> blockId]
         IN [blocks |-> Put(b1, blockId, blockData), accepted |-> TRUE]

\* the level addOrStackBlock(gridPoint) hands to addBlock
addOrStackTarget(b, x, z) ==
    Max({-1} \cup {b[i].yLevel : i \in ColumnIds(b, x, z)}) + 1

\* stackVertically going one above the block it was given
stackVerticallyTarget_aboveReference(b, id) == b[id].yLevel + 1

\* the level stackVertically(blockData) stores its block at
stackVerticallyTarget(b, id) ==
    Max({b[id].yLevel} \cup {b[i].yLevel : i \in ColumnIds(b, b[id].x, b[id].z)}) + 1

\* stackVertically inflating a thin base under a block it puts at level 1
stackVertically_inflates(b, id) ==
    LET x == b[id].x
        z == b[id].z
        newLevel == stackVerticallyTarget(b, id)
        b1 == IF newLevel = 1 THEN inflateBase(b, x, z) ELSE b
        newBlockId == <<x, newLevel, z>>
        yPosition == calculateYPosition(b1, x, z, newLevel, blockSize)
        newBlockData == [x |-> x, y |-> yPosition, z |-> z, yLevel |-> newLevel,
                         height |-> blockSize, meshY |-> yPosition, id |-> newBlockId]
    IN Put(b1, newBlockId, newBlockData)

\* stackVertically(blockData): the store it leaves
stackVertically(b, id) ==
    LET x == b[id].x
        z == b[id].z
        newLevel == stackVerticallyTarget(b, id)
        newBlockId == <<x, newLevel, z>>
        yPosition == calculateYPosition(b, x, z, newLevel, blockSize)
        newBlockData == [x |-> x, y |-> yPosition, z |-> z, yLevel |-> newLevel,
                         height |-> blockSize, meshY |-> yPosition, id |-> newBlockId]
    IN Put(b, newBlockId, newBlockData)

AddOrStackBlock ==
    \E gp \in gridData :
        LET newLevel == addOrStackTarget(blocks, gp[1], gp[2])
            r == addBlock(blocks, gridData, enableBlockPhysics, gp[1], gp[2], newLevel)
        IN /\ newLevel \in Levels
           /\ Size(r.blocks) <= MaxBlocks
           /\ blocks' = r.blocks
           /\ blockCount' = Size(r.blocks)
           /\ last' = [NoOp("addOrStackBlock") EXCEPT !.accepted = r.accepted,
                                                      !.cell = <<gp[1], newLevel, gp[2]>>]
           /\ gridItems' = IF r.accepted
                           THEN markItem(gridItems, gridData, gp[1], gp[2], newLevel)
                           ELSE gridItems
           /\ UNCHANGED <<enableBlockPhysics, gridData, app, pass>>

StackVertically ==
    \E id \in DOMAIN blocks :
        LET newLevel == stackVerticallyTarget(blocks, id)
            b2 == stackVertically(blocks, id)
        IN /\ newLevel \in Levels
           /\ Size(b2) <= MaxBlocks
           /\ blocks' = b2
           /\ blockCount' = Size(b2)
           /\ last' = [NoOp("stackVertically") EXCEPT !.cell = <<blocks[id].x, newLevel, blocks[id].z>>]
           /\ UNCHANGED <<enableBlockPhysics, gridData, gridItems, app, pass>>

\* the placement operations that resolve their own target cell, with the removals
\* and the physics button
StackNext ==
    \/ SetupGrid
    \/ PlaceAboveBlock
    \/ PlaceBelowBlock
    \/ PlaceAdjacentBlock
    \/ PlaceAtLowestAvailableAtGrid
    \/ PlaceBelowAtGrid
    \/ AddOrStackBlock
    \/ StackVertically
    \/ RemoveBlockByMesh
    \/ RemoveBlock
    \/ ToggleBlockPhysics

StackSpec == Init /\ [][StackNext]_vars

\* ------------------------------------ the cascade, one pass of its loop at a time
\* last.op while removeUnsupportedBlocks is inside its while loop
InLoop == "removeUnsupportedBlocks.while"

\* a pass of the while loop that deletes nothing of what it finds
cascadePass_keepsBlocks(b, g, removedCount) ==
    LET unsupportedBlocks == findUnsupportedBlocks(b, g) IN
    [blocks |-> b,
     removed |-> removedCount + Cardinality(unsupportedBlocks),
     hasUnsupported |-> unsupportedBlocks # {}]

\* one pass of the while loop: [blocks, removed, hasUnsupported]
cascadePass(b, g, removedCount) ==
    LET unsupportedBlocks == findUnsupportedBlocks(b, g) IN
    [blocks |-> Delete(b, {b[i].id : i \in unsupportedBlocks}),
     removed |-> removedCount + Cardinality(unsupportedBlocks),
     hasUnsupported |-> unsupportedBlocks # {}]

\* removeUnsupportedBlocks() is called: it returns at once without physics, and
\* enters its loop otherwise
CascadeBegin ==
    /\ last.op # InLoop
    /\ last' = IF enableBlockPhysics THEN NoOp(InLoop) ELSE NoOp("removeUnsupportedBlocks")
    /\ UNCHANGED <<blocks, enableBlockPhysics, gridData, blockCount, gridItems, app, pass>>

\* the next pass of the loop; after a pass that found nothing the call returns
CascadePass ==
    LET r == cascadePass(blocks, gridData, last.removed) IN
    /\ last.op = InLoop
    /\ blocks' = r.blocks
    /\ last' = [NoOp(IF r.hasUnsupported THEN InLoop ELSE "removeUnsupportedBlocks")
                    EXCEPT !.removed = r.removed]
    /\ blockCount' = IF ~r.hasUnsupported /\ r.removed > 0 THEN Size(r.blocks) ELSE blockCount
    /\ UNCHANGED <<enableBlockPhysics, gridData, gridItems, app, pass>>

\* nothing else runs while the loop does
PassNext ==
    \/ last.op # InLoop /\ SetupGrid
    \/ last.op # InLoop /\ CreateBlockAt
    \/ last.op # InLoop /\ ToggleBlockPhysics
    \/ CascadeBegin
    \/ CascadePass

PassSpec == Init /\ [][PassNext]_vars

\* the loop is straight-line code: a pass that can run does run
PassFairSpec == PassSpec /\ WF_vars(CascadePass)

\* ------------------------------ the cascade, one statement of a pass at a time
\* the forEach callback that deletes the block it finds unsupported at once
scanBlock_deletesAtOnce(b, g, id, unsupportedBlocks) ==
    IF ~hasSupport(b, g, b[id].x, b[id].yLevel, b[id].z)
    THEN [blocks |-> Delete(b, {b[id].id}),
          unsupportedBlocks |-> Append(unsupportedBlocks, b[id])]
    ELSE [blocks |-> b, unsupportedBlocks |-> unsupportedBlocks]

\* the callback of this.blocks.forEach in findUnsupportedBlocks, on one block:
\* [blocks, unsupportedBlocks]
scanBlock(b, g, id, unsupportedBlocks) ==
    [blocks |-> b,
     unsupportedBlocks |-> IF ~hasSupport(b, g, b[id].x, b[id].yLevel, b[id].z)
                           THEN Append(unsupportedBlocks, b[id])
                           ELSE unsupportedBlocks]

\* removeUnsupportedBlocks() is called with physics enabled: the loop is entered
\* and findUnsupportedBlocks starts on the store
ScanCall ==
    /\ pass.phase = "idle"
    /\ enableBlockPhysics
    /\ pass' = [NoPass EXCEPT !.phase = "scan", !.call = blocks, !.start = blocks]
    /\ UNCHANGED <<blocks, enableBlockPhysics, gridData, blockCount, last, gridItems, app>>

\* forEach comes to the next block, in whatever order the Map holds the blocks
ScanBlock ==
    \E id \in DOMAIN blocks \ pass.scanned :
        LET r == scanBlock(blocks, gridData, id, pass.unsupportedBlocks) IN
        /\ pass.phase = "scan"
        /\ blocks' = r.blocks
        /\ pass' = [pass EXCEPT !.scanned = @ \cup {id},
                                !.unsupportedBlocks = r.unsupportedBlocks]
        /\ UNCHANGED <<enableBlockPhysics, gridData, blockCount, last, gridItems, app>>

\* findUnsupportedBlocks returns: hasUnsupported = unsupportedBlocks.length > 0
ScanDone ==
    /\ pass.phase = "scan"
    /\ DOMAIN blocks \subseteq pass.scanned
    /\ pass' = [pass EXCEPT !.phase = "delete",
                            !.hasUnsupported = (pass.unsupportedBlocks # <<>>)]
    /\ UNCHANGED <<blocks, enableBlockPhysics, gridData, blockCount, last, gridItems, app>>

\* the for loop over unsupportedBlocks deletes the next block of the list
DeleteBlock ==
    /\ pass.phase = "delete"
    /\ pass.unsupportedBlocks # <<>>
    /\ blocks' = Delete(blocks, {Head(pass.unsupportedBlocks).id})
    /\ pass' = [pass EXCEPT !.unsupportedBlocks = Tail(@), !.removedCount = @ + 1]
    /\ UNCHANGED <<enableBlockPhysics, gridData, blockCount, last, gridItems, app>>

\* while (hasUnsupported): the next pass starts
NextPass ==
    /\ pass.phase = "delete"
    /\ pass.unsupportedBlocks = <<>>
    /\ pass.hasUnsupported
    /\ pass' = [pass EXCEPT !.phase = "scan", !.start = blocks, !.scanned = {}]
    /\ UNCHANGED <<blocks, enableBlockPhysics, gridData, blockCount, last, gridItems, app>>

\* the loop ends and removeUnsupportedBlocks returns removedCount
ScanReturn ==
    /\ pass.phase = "delete"
    /\ pass.unsupportedBlocks = <<>>
    /\ ~pass.hasUnsupported
    /\ pass' = NoPass
    /\ last' = [NoOp("removeUnsupportedBlocks") EXCEPT !.removed = pass.removedCount]
    /\ blockCount' = IF pass.removedCount > 0 THEN Size(blocks) ELSE blockCount
    /\ UNCHANGED <<blocks, enableBlockPhysics, gridData, gridItems, app>>

\* nothing else runs while the call does
ScanNext ==
    \/ pass.phase = "idle" /\ SetupGrid
    \/ pass.phase = "idle" /\ CreateBlockAt
    \/ ScanCall
    \/ ScanBlock
    \/ ScanDone
    \/ DeleteBlock
    \/ NextPass
    \/ ScanReturn

ScanSpec == Init /\ [][ScanNext]_vars

\* ------------------------------------ a long line of blocks along x
\* a grid of one cell, and the cells of a line over it: a line on level 0 from
\* the grid cell, or a line on level 1 from a block standing on the grid cell
ChainGrid == {<<0, 0>>}
ChainCells == {<<x, l, 0>> : x \in 0..(MaxChain - 1), l \in {0, 1}}

ChainSetupGrid ==
    /\ gridData' = ChainGrid
    /\ last' = NoOp("setupGrid")
    /\ UNCHANGED <<blocks, enableBlockPhysics, blockCount, gridItems, app, pass>>

\* createBlockAt(x, 0, yLevel, options) on the first free cell of the line, or on
\* the grid cell
ChainPlace ==
    \E c \in ChainCells, skipValidation \in BOOLEAN :
        LET r == createBlockAt(blocks, gridData, enableBlockPhysics,
                               c[1], c[3], c[2], skipValidation) IN
        /\ c \notin DOMAIN blocks
        /\ {<<x, c[2], 0>> : x \in 0..(c[1] - 1)} \subseteq DOMAIN blocks
        /\ c # <<0, 0, 0>> => {d \in DOMAIN blocks \ {<<0, 0, 0>>} : d[2] # c[2]} = {}
        /\ blocks' = r.blocks
        /\ blockCount' = IF r.accepted THEN Size(r.blocks) ELSE blockCount
        /\ last' = [NoOp("createBlockAt") EXCEPT !.accepted = r.accepted]
        /\ UNCHANGED <<enableBlockPhysics, gridData>>
        /\ gridItems' = IF r.accepted THEN markItem(gridItems, gridData, c[1], c[3], c[2])
                        ELSE gridItems
        /\ UNCHANGED <<app, pass>>

\* removeBlockByMesh(blockMesh) on the last block of a line or on the ground block
ChainRemove ==
    \E id \in DOMAIN blocks :
        LET blockData == blocks[id]
            r == removeUnsupportedBlocks(Delete(blocks, {blockData.id}),
                                         gridData, enableBlockPhysics)
        IN /\ id # <<0, 0, 0>> => <<id[1] + 1, id[2], id[3]>> \notin DOMAIN blocks
           /\ blocks' = r.blocks
           /\ blockCount' = Size(r.blocks)
           /\ last' = [NoOp("removeBlockByMesh") EXCEPT !.cell = id, !.removed = r.removed]
           /\ UNCHANGED <<enableBlockPhysics, gridData>>
           /\ gridItems' = clearItem(gridItems, gridData, blockData.x, blockData.z)
           /\ UNCHANGED <<app, pass>>

ChainNext ==
    \/ ChainSetupGrid
    \/ ChainPlace
    \/ ChainRemove
    \/ ToggleBlockPhysics

ChainSpec == Init /\ [][ChainNext]_vars

\* ------------------------------ BlockBuilder (blockBuilder.js) and its limited cascade
\* BlockBuilder keeps its own store, grid and physics flag; its hasSupport,
\* hasIndirectSupport, validateBlockPlacement and findUnsupportedBlocks are the
\* statements of the BlockSystem methods of the same names, and every block has
\* the full height.
SafetyLimit == 100

\* the cascade loop running until no unsupported block is left
builderCascadeLoop_noLimit(b, g, removedCount) == cascadeLoop(b, g, removedCount)

\* while (hasUnsupported && removedCount < 100) { ... }: [blocks, removed]
RECURSIVE builderCascadeLoop(_, _, _)
builderCascadeLoop(b, g, removedCount) ==
    IF removedCount < SafetyLimit
    THEN LET unsupportedBlocks == findUnsupportedBlocks(b, g) IN
         IF unsupportedBlocks = {}
         THEN [blocks |-> b, removed |-> removedCount]
         ELSE builderCascadeLoop(Delete(b, {b[i].id : i \in unsupportedBlocks}), g,
                                 removedCount + Cardinality(unsupportedBlocks))
    ELSE [blocks |-> b, removed |-> removedCount]

\* BlockBuilder.removeUnsupportedBlocks(): [blocks, removed]
builderRemoveUnsupportedBlocks(b, g, physics) ==
    IF ~physics THEN [blocks |-> b, removed |-> 0]
    ELSE builderCascadeLoop(b, g, 0)

\* the record BlockBuilder stores for a block at (x, yLevel, z)
builderBlockData(x, yLevel, z) ==
    LET yPosition == yLevel * blockSize + blockSize \div 2 IN
    [x |-> x, y |-> yPosition, z |-> z, yLevel |-> yLevel,
     height |-> blockSize, meshY |-> yPosition, id |-> <<x, yLevel, z>>]

\* BlockBuilder.addBlock / createBlockAt: [blocks, accepted]
builderCreateBlockAt(b, g, physics, x, z, yLevel) ==
    IF physics /\ ~validateBlockPlacement(b, g, x, yLevel, z)
    THEN [blocks |-> b, accepted |-> FALSE]
    ELSE [blocks |-> Put(b, <<x, yLevel, z>>, builderBlockData(x, yLevel, z)),
          accepted |-> TRUE]

\* the blocks of the level-0 row along x
Row(b) == {i \in DOMAIN b : i[2] = 0 /\ i[3] = 0}

BuilderSetupGrid ==
    /\ gridData' = ChainGrid
    /\ last' = NoOp("setupGrid")
    /\ UNCHANGED <<blocks, enableBlockPhysics, blockCount, gridItems, app, pass>>

\* a click on the grid square: addOrStackBlock(gridPoint), on the empty column
BuilderAddOrStackBlock ==
    \E gp \in gridData :
        LET newLevel == addOrStackTarget(blocks, gp[1], gp[2])
            r == builderCreateBlockAt(blocks, gridData, enableBlockPhysics,
                                      gp[1], gp[2], newLevel)
        IN /\ newLevel = 0
           /\ blocks' = r.blocks
           /\ blockCount' = Size(r.blocks)
           /\ last' = [NoOp("addOrStackBlock") EXCEPT !.accepted = r.accepted,
                                                      !.cell = <<gp[1], newLevel, gp[2]>>]
           /\ UNCHANGED <<enableBlockPhysics, gridData, gridItems, app, pass>>

\* a click on the east side of the last block of the row, the column beside it
\* being empty: placeAdjacentBlock
BuilderPlaceAdjacentBlock ==
    \E id \in Row(blocks) :
        LET col == adjacentColumn(blocks[id].x, blocks[id].z, 20, 0, "none")
            newX == col[1]
            newZ == col[2]
            highestLevel == Max({-1} \cup {blocks[i].yLevel : i \in ColumnIds(blocks, newX, newZ)})
            newLevel == IF highestLevel >= 0 THEN highestLevel + 1 ELSE blocks[id].yLevel
            r == builderCreateBlockAt(blocks, gridData, enableBlockPhysics, newX, newZ, newLevel)
        IN /\ id[1] = Max({i[1] : i \in Row(blocks)})
           /\ newX < MaxRow
           /\ highestLevel < 0
           /\ blocks' = r.blocks
           /\ blockCount' = IF r.accepted THEN Size(r.blocks) ELSE blockCount
           /\ last' = [NoOp("placeAdjacentBlock") EXCEPT !.accepted = r.accepted,
                                                         !.cell = <<newX, newLevel, newZ>>]
           /\ UNCHANGED <<enableBlockPhysics, gridData, gridItems, app, pass>>

\* a click on the top of the block at (1, 0, 0), once the row is complete:
\* stackVertically, no validation
BuilderStackVertically ==
    \E id \in DOMAIN blocks :
        LET newLevel == stackVerticallyTarget(blocks, id)
            b2 == Put(blocks, <<blocks[id].x, newLevel, blocks[id].z>>,
                      builderBlockData(blocks[id].x, newLevel, blocks[id].z))
        IN /\ id = <<1, 0, 0>>
           /\ Max({i[1] : i \in Row(blocks)}) = MaxRow - 1
           /\ newLevel = 1
           /\ blocks' = b2
           /\ blockCount' = Size(b2)
           /\ last' = [NoOp("stackVertically") EXCEPT !.cell = <<blocks[id].x, newLevel, blocks[id].z>>]
           /\ UNCHANGED <<enableBlockPhysics, gridData, gridItems, app, pass>>

\* a shift-click on the block over the grid square, once a block is stacked on the
\* row: removeBlockByMesh
BuilderRemoveBlockByMesh ==
    \E id \in DOMAIN blocks :
        LET blockData == blocks[id]
            r == builderRemoveUnsupportedBlocks(Delete(blocks, {blockData.id}),
                                                gridData, enableBlockPhysics)
        IN /\ id = <<0, 0, 0>>
           /\ <<1, 1, 0>> \in DOMAIN blocks
           /\ blocks' = r.blocks
           /\ blockCount' = Size(r.blocks)
           /\ last' = [NoOp("removeBlockByMesh") EXCEPT !.cell = id, !.removed = r.removed]
           /\ gridItems' = clearItem(gridItems, gridData, blockData.x, blockData.z)
           /\ UNCHANGED <<enableBlockPhysics, gridData, app, pass>>

BuilderToggleBlockPhysics ==
    LET physics == ~enableBlockPhysics
        r == builderRemoveUnsupportedBlocks(blocks, gridData, physics)
    IN /\ enableBlockPhysics' = physics
       /\ blocks' = r.blocks
       /\ blockCount' = IF r.removed > 0 THEN Size(r.blocks) ELSE blockCount
       /\ last' = [NoOp("toggleBlockPhysics") EXCEPT !.removed = r.removed]
       /\ UNCHANGED <<gridData, gridItems, app, pass>>

BuilderNext ==
    \/ BuilderSetupGrid
    \/ BuilderAddOrStackBlock
    \/ BuilderPlaceAdjacentBlock
    \/ BuilderStackVertically
    \/ BuilderRemoveBlockByMesh
    \/ BuilderToggleBlockPhysics

BuilderSpec == Init /\ [][BuilderNext]_vars

\* ------------------------------------ the stages of app.js and the grid generation
\* delays of the timers, in ms
LOADING_TIMEOUT_MS == 15000
BuilderDelayMs == 1200
StageDelayMs == 100
GenerateDelayMs == 1000
\* the clock advances in steps of the shortest delay
Tick == StageDelayMs

\* the grid a complete generation yields
FullGrid == {<<0, 0>>, <<1, 0>>}

\* generateGrid between two macrotasks: where it will resume ("points": in the
\* row loop of generateGridPointsAsync, "data": in the chunk loop of
\* generateGridDataAsync), how many yields of that loop are still to come, whether
\* the boundary holds any point, and the chunks its points make
Running == {"points", "data"}
NoRun == [pc |-> "idle", yields |-> 0, chunks |-> 0, found |-> FALSE]

\* generateGrid dispatching whatever generateGridDataAsync returned
dispatchesGrid_noAbortCheck(abort) == TRUE

\* generateGrid: if (window.__abortGeneration) return; before the dispatch
dispatchesGrid(abort) == ~abort

\* the macrotask of generateGrid that starts from run with the flag at abort, up
\* to its next await setTimeout(0) or its return: the run it leaves
\*   "returned": stopped silently on the flag; "empty": no grid points, showError;
\*   "dispatched": gridGenerated was dispatched (grid: what it carried)
RECURSIVE generateStep(_, _)
generateStep(run, abort) ==
    IF run.pc = "points"
    THEN IF run.yields > 0
         THEN \* 50 more rows, then the check before the yield
              IF abort
              THEN \* break with the points so far; the chunk loop breaks at once
                   IF run.found
                   THEN [run EXCEPT !.pc = IF dispatchesGrid(abort) THEN "dispatched"
                                            ELSE "returned",
                                    !.found = FALSE]
                   ELSE [run EXCEPT !.pc = "empty"]
              ELSE [run EXCEPT !.yields = run.yields - 1]
         ELSE \* the row loop ends; generateGrid goes on with the points
              IF ~run.found THEN [run EXCEPT !.pc = "empty"]
              ELSE generateStep([run EXCEPT !.pc = "data", !.yields = run.chunks], abort)
    ELSE IF run.yields > 0
         THEN \* the next chunk: if (window.__abortGeneration) break
              IF abort
              THEN [run EXCEPT !.pc = IF dispatchesGrid(abort) THEN "dispatched"
                                       ELSE "returned",
                               !.found = FALSE]
              ELSE [run EXCEPT !.yields = run.yields - 1]
         ELSE \* the chunk loop ends: return abort ? [] : result
              [run EXCEPT !.pc = IF dispatchesGrid(abort) THEN "dispatched" ELSE "returned",
                          !.found = ~abort]

\* a timer of the page: setTimeout(kind, due - now), registered seq-th
Timer(due, seq, kind) == [due |-> due, seq |-> seq, kind |-> kind]

\* the timer the event loop runs next: the earliest due, the earliest registered
NextTimer(a) ==
    CHOOSE t \in a.timers :
        \A u \in a.timers : t.due < u.due \/ (t.due = u.due /\ t.seq <= u.seq)

Due(a, kind) ==
    /\ ~a.busy /\ a.timers # {}
    /\ NextTimer(a).due <= a.now
    /\ NextTimer(a).kind = kind

\* a with its next timer taken off the queue
Fired(a) == [a EXCEPT !.timers = a.timers \ {NextTimer(a)}]

\* a with a timer added
After(a, delay, kind) ==
    [a EXCEPT !.timers = a.timers \cup {Timer(a.now + delay, a.seq, kind)},
              !.seq = a.seq + 1]

\* transitionToStage(stageName): nothing when already there, else the switch
\* is set for 100 ms later
transitionToStage(a, stageName) ==
    IF a.currentStage = stageName THEN a ELSE After(a, StageDelayMs, stageName)

\* the App object at the map stage, the boundary not drawn yet
AppStart ==
    [now |-> 0, seq |-> 0, timers |-> {}, busy |-> FALSE,
     currentStage |-> "map", token |-> FALSE, abort |-> FALSE, alerted |-> FALSE,
     run |-> NoRun]

AppInit ==
    /\ blocks = EmptyStore
    /\ enableBlockPhysics = TRUE
    /\ gridData = {}
    /\ blockCount = 0
    /\ last = NoOp("constructor")
    /\ gridItems = {}
    /\ app = AppStart
    /\ pass = NoPass

AppFrame == UNCHANGED <<blocks, enableBlockPhysics, blockCount, last, gridItems, pass>>

\* completeBoundary: boundaryCompleted is dispatched (transitionToLoading runs:
\* the stage switch, the token, the 15 s timer), then generateGrid is set for 1 s later
BoundaryCompleted ==
    /\ app.currentStage = "map" /\ app.timers = {}
    /\ app' = After(After([transitionToStage(app, "loading") EXCEPT !.token = TRUE],
                          LOADING_TIMEOUT_MS, "timeout"),
                    GenerateDelayMs, "generate")
    /\ AppFrame /\ UNCHANGED gridData

\* time passes: while a macrotask runs, or while no timer is due
Advance ==
    /\ app.busy \/ (app.timers # {} /\ NextTimer(app).due > app.now)
    /\ app.now + Tick <= MaxTime
    /\ app' = [app EXCEPT !.now = app.now + Tick]
    /\ AppFrame /\ UNCHANGED gridData

\* the 100 ms callback of transitionToStage
StageSwitch ==
    \E stageName \in {"loading", "builder"} :
        /\ Due(app, stageName)
        /\ app' = [Fired(app) EXCEPT !.currentStage = stageName]
        /\ AppFrame /\ UNCHANGED gridData

\* the 15 s callback of transitionToLoading
LoadingTimeout ==
    /\ Due(app, "timeout")
    /\ app' = IF app.currentStage = "loading" /\ app.token
              THEN [Fired(app) EXCEPT !.abort = TRUE, !.alerted = TRUE]
              ELSE Fired(app)
    /\ AppFrame /\ UNCHANGED gridData

\* the 1200 ms callback of the gridGenerated listener: transitionToBuilder
TransitionToBuilder ==
    /\ Due(app, "builder")
    /\ app' = transitionToStage([Fired(app) EXCEPT !.token = FALSE], "builder")
    /\ AppFrame /\ UNCHANGED gridData

\* generateGrid(bounds, boundary) starts: the flag is reset and the first rows
\* are scanned; the boundary decides the yields, the chunks and whether it holds points
GenerateGrid ==
    \E yields \in 0..MaxRowYields, chunks \in 1..MaxChunks, found \in BOOLEAN :
        /\ Due(app, "generate")
        /\ app' = [Fired(app) EXCEPT !.abort = FALSE, !.busy = TRUE,
                       !.run = [pc |-> "points", yields |-> yields,
                                chunks |-> chunks, found |-> found]]
        /\ AppFrame /\ UNCHANGED gridData

\* generateGrid resumes after an await setTimeout(0)
Resume ==
    /\ Due(app, "resume")
    /\ app' = [Fired(app) EXCEPT !.busy = TRUE]
    /\ AppFrame /\ UNCHANGED gridData

\* the running macrotask of generateGrid reaches its next await or its return;
\* a dispatched gridGenerated runs its listeners: BlockBuilder hands the grid to
\* BlockSystem.setupGrid, App sets transitionToBuilder for 1200 ms later
Yield ==
    LET run == generateStep(app.run, app.abort)
        a == [app EXCEPT !.busy = FALSE, !.run = run]
    IN /\ app.busy
       /\ app' = IF run.pc \in Running THEN After(a, 0, "resume")
                 ELSE IF run.pc = "dispatched" THEN After(a, BuilderDelayMs, "builder")
                 ELSE a
       /\ gridData' = IF run.pc = "dispatched"
                      THEN (IF run.found THEN FullGrid ELSE {})
                      ELSE gridData
       /\ AppFrame

AppNext ==
    \/ BoundaryCompleted
    \/ Advance
    \/ StageSwitch
    \/ LoadingTimeout
    \/ TransitionToBuilder
    \/ GenerateGrid
    \/ Resume
    \/ Yield

AppSpec == AppInit /\ [][AppNext]_vars

\* ------------------------------ the store next to the export data of the generator
\* the builder is entered: window.gridGenerator holds the generated grid, every
\* item with blockHeight 0, and setupGrid has handed the grid to the store
ExportInit ==
    /\ blocks = EmptyStore
    /\ enableBlockPhysics = TRUE
    /\ gridData = FullGrid
    /\ blockCount = 0
    /\ last = NoOp("setupGrid")
    /\ gridItems = {}
    /\ app = NoApp
    /\ pass = NoPass

ExportNext ==
    \/ CreateBlockAt
    \/ RemoveBlockByMesh
    \/ RemoveBlock
    \/ ClearAllBlocks
    \/ ToggleBlockPhysics

ExportSpec == ExportInit /\ [][ExportNext]_vars

\* ------------------------------------------------ the support relation, as stated
\* a level-0 cell of the generated grid
Grounded(g, c) == c[2] = 0 /\ <<c[1], c[3]>> \in g

Below(c) == <<c[1], c[2] - 1, c[3]>>

\* the cells of S joined to the cells of R by same-level horizontal adjacency
RECURSIVE Component(_, _)
Component(S, R) ==
    LET R2 == R \cup {d \in S : \E r \in R : d \in getAdjacentPositions(r[1], r[2], r[3])} IN
    IF R2 = R THEN R ELSE Component(S, R2)

\* c stands on the ground or on a block of S
BaseSupported(S, g, c) == Grounded(g, c) \/ Below(c) \in S

\* c is supported within S: grounded, or on a block of S, or joined by a
\* same-level chain of blocks of S to a block that is grounded or on a block of S
SupportedIn(S, g, c) ==
    \E d \in Component(S \cup {c}, {c}) : BaseSupported(S, g, d)

\* the largest subset of D in which every block is supported within the subset
LargestSupported(D, g) ==
    UNION {S \in SUBSET D : \A c \in S : SupportedIn(S, g, c)}

\* the world Y of the stored block id, from the heights stored now
RECURSIVE HeightBelow(_, _, _, _)
HeightBelow(b, x, z, level) ==
    IF level <= 0 THEN 0
    ELSE HeightBelow(b, x, z, level - 1)
         + (IF <<x, level - 1, z>> \in DOMAIN b THEN b[<<x, level - 1, z>>].height
            ELSE blockSize)

ExpectedY(b, id) ==
    landBaseY + HeightBelow(b, id[1], id[3], id[2]) + b[id].height \div 2

Cascading == {"removeUnsupportedBlocks", "toggleBlockPhysics", "removeBlock", "removeBlockByMesh"}

\* ----------------------------------------------------------------- claims

\* C1: the cascade (physics enabled) never removes a level-0 block stored on a
\* cell of the grid: after a removal, a physics re-enable or a direct call, every
\* such block of the store before the call, other than the block the removal
\* addressed, is still stored.
C1_GroundBlocksSurviveCascade ==
    [][(last'.op \in Cascading /\ enableBlockPhysics')
        => \A id \in DOMAIN blocks :
              (Grounded(gridData, id) /\ id # last'.cell) => id \in DOMAIN blocks']_vars

\* C2: after removeUnsupportedBlocks (physics enabled) the store is the largest
\* subset of the prior store in which every block is supported within the subset.
C2_CascadeIsLargestSupportedSubset ==
    [][(last'.op = "removeUnsupportedBlocks" /\ enableBlockPhysics)
        => DOMAIN blocks' = LargestSupported(DOMAIN blocks, gridData)]_vars

\* C3: validateBlockPlacement(x, 0, z) is true for every (x, z) of the grid data
\* whatever the store holds, so a validated createBlockAt there is accepted with
\* physics enabled.
C3_GroundCellAlwaysValid ==
    \A gp \in gridData :
        /\ validateBlockPlacement(blocks, gridData, gp[1], 0, gp[2])
        /\ createBlockAt(blocks, gridData, TRUE, gp[1], gp[2], 0, FALSE).accepted

\* a block was accepted with physics enabled, and the store holds a level-0 block
\* of the grid that has neither a block below nor a supporting neighbour
C3_Witness ==
    /\ last.op = "createBlockAt" /\ last.accepted /\ enableBlockPhysics
    /\ \E id \in DOMAIN blocks :
           /\ Grounded(gridData, id)
           /\ ~hasSupport(blocks, gridData, id[1], id[2], id[3])

\* C4: a cell above level 0 whose cell directly below is occupied passes
\* hasSupport and validateBlockPlacement, whether or not the block below is
\* itself supported and whatever its horizontal neighbours are.
C4_VerticalSupport ==
    \A c \in Cells :
        (c[2] > 0 /\ Below(c) \in DOMAIN blocks)
            => /\ hasSupport(blocks, gridData, c[1], c[2], c[3])
               /\ validateBlockPlacement(blocks, gridData, c[1], c[2], c[3])

\* a stored block stands on a block that is itself unsupported
C4_Witness ==
    \E id \in DOMAIN blocks :
        /\ id[2] > 0 /\ Below(id) \in DOMAIN blocks
        /\ ~SupportedIn(DOMAIN blocks, gridData, Below(id))
        /\ last.op = "createBlockAt"

\* C5: when no block of a same-level component of horizontally adjacent blocks is
\* a level-0 block of the grid or has a block directly beneath it, the support
\* check reports every block of the component unsupported.
C5_NoMutualSupport ==
    \A id \in DOMAIN blocks :
        LET comp == Component(DOMAIN blocks, {id}) IN
        (\A d \in comp : ~BaseSupported(DOMAIN blocks, gridData, d))
            => \A d \in comp :
                  /\ ~hasSupport(blocks, gridData, d[1], d[2], d[3])
                  /\ ~validateBlockPlacement(blocks, gridData, d[1], d[2], d[3])

\* two horizontally adjacent stored blocks float: nothing in their component is
\* grounded or stands on a block
C5_Witness ==
    \E id \in DOMAIN blocks :
        LET comp == Component(DOMAIN blocks, {id}) IN
        /\ Cardinality(comp) >= 2
        /\ \A d \in comp : ~BaseSupported(DOMAIN blocks, gridData, d)

\* C6: with physics enabled and skipValidation not set, createBlockAt on a cell
\* that is not supported returns false and leaves the store as it was: no block
\* added, no height or cached position changed, the block count unchanged.
C6_RejectedStoreUntouched ==
    enableBlockPhysics =>
        \A c \in Cells :
            ~validateBlockPlacement(blocks, gridData, c[1], c[2], c[3])
                => createBlockAt(blocks, gridData, enableBlockPhysics, c[1], c[3], c[2], FALSE)
                       = [blocks |-> blocks, accepted |-> FALSE]

C6_RejectedStepUntouched ==
    [][(last'.op = "createBlockAt" /\ ~last'.accepted)
        => (blocks' = blocks /\ blockCount' = blockCount
            /\ blockCount' = Size(blocks'))]_vars

C6_RejectedPlacement == []C6_RejectedStoreUntouched /\ C6_RejectedStepUntouched

\* createBlockAt has just returned false on a store that holds blocks
C6_Witness ==
    /\ last.op = "createBlockAt" /\ ~last.accepted
    /\ enableBlockPhysics /\ blocks # EmptyStore

\* C7: a removeUnsupportedBlocks called right after another one, with physics
\* enabled, removes nothing and returns 0.
C7_SecondCascadeRemovesNothing ==
    [][(last.op = "removeUnsupportedBlocks" /\ last'.op = "removeUnsupportedBlocks"
        /\ enableBlockPhysics)
        => (blocks' = blocks /\ last'.removed = 0)]_vars

\* the second of two calls in a row returned, the first having removed blocks
C7_Witness ==
    /\ last.op = "removeUnsupportedBlocks" /\ enableBlockPhysics
    /\ last.prev > 0 /\ last.removed = 0

\* C8: every stored block's cached world Y (blockData.position.y) is landBaseY
\* plus the heights now stored at the levels below it in its column (one unit for
\* an empty level) plus half its own height.
C8_CachedYMatchesStore ==
    \A id \in DOMAIN blocks : blocks[id].y = ExpectedY(blocks, id)

\* C9: a level-0 block placed in an empty column gets the reduced height; a block
\* then placed at level 1 of that column makes the ground block exactly one unit
\* high, has full height itself and world Y landBaseY + 1.0 + 0.5.
C9_ThinBaseInflation ==
    [][\A c \in Columns :
        LET base == <<c[1], 0, c[2]>>
            upper == <<c[1], 1, c[2]>> IN
        /\ (ColumnIds(blocks, c[1], c[2]) = {} /\ base \in DOMAIN blocks')
              => blocks'[base].height = thinHeight
        /\ (/\ base \in DOMAIN blocks /\ blocks[base].height = thinHeight
            /\ upper \notin DOMAIN blocks /\ upper \in DOMAIN blocks')
              => /\ blocks'[base].height = blockSize
                 /\ blocks'[upper].height = blockSize
                 /\ blocks'[upper].y = landBaseY + blockSize + blockSize \div 2]_vars

\* a column whose ground block was created thin and has been inflated by the
\* block placed at level 1
C9_Witness ==
    /\ last.op = "createBlockAt" /\ last.accepted
    /\ \E c \in Columns :
           /\ <<c[1], 0, c[2]>> \in DOMAIN blocks /\ <<c[1], 1, c[2]>> \in DOMAIN blocks
           /\ blocks[<<c[1], 0, c[2]>>].y = landBaseY + thinHeight \div 2
           /\ blocks[<<c[1], 0, c[2]>>].height = blockSize
           /\ blocks[<<c[1], 1, c[2]>>].y = landBaseY + blockSize + blockSize \div 2

\* the column of c holds exactly the levels 0..n-1 for some n >= 2, and no block
\* is stored in a horizontally adjacent column
IsolatedColumn(b, c) ==
    LET col == ColumnIds(b, c[1], c[2]) IN
    /\ Cardinality(col) >= 2
    /\ col = {<<c[1], l, c[2]>> : l \in 0..(Cardinality(col) - 1)}
    /\ \A d \in DOMAIN b :
           <<d[1], 0, d[3]>> \notin getAdjacentPositions(c[1], 0, c[2])

\* C10: with physics enabled, removeBlockByMesh on the level-0 block of a column
\* that stands on a grid cell, holds the levels 0..n-1 (n >= 2) and has no block
\* in a horizontally adjacent column leaves none of the column's blocks; when the
\* store held only that column it ends empty.
C10_ColumnCollapses ==
    [][\A c \in Columns :
        (/\ enableBlockPhysics
         /\ <<c[1], c[2]>> \in gridData
         /\ IsolatedColumn(blocks, c)
         /\ last'.op = "removeBlockByMesh"
         /\ last'.cell = <<c[1], 0, c[2]>>)
            => /\ ColumnIds(blocks', c[1], c[2]) = {}
               /\ last'.removed >= Cardinality(ColumnIds(blocks, c[1], c[2])) - 1
               /\ (DOMAIN blocks = ColumnIds(blocks, c[1], c[2])
                      => (Size(blocks') = 0 /\ blockCount' = 0))]_vars

\* the level-0 block of a grid column was removed by its mesh and the cascade
\* took at least two more blocks, leaving the store empty
C10_Witness ==
    /\ last.op = "removeBlockByMesh" /\ enableBlockPhysics
    /\ last.cell[2] = 0 /\ <<last.cell[1], last.cell[3]>> \in gridData
    /\ last.removed >= 2
    /\ blocks = EmptyStore

\* C11: with grid {(0,0),(1,0)} and blocks at (0,0,0), (1,0,0), (0,1,0), (1,1,0),
\* removing one ground block leaves the other three blocks stored, and removing
\* the second ground block then leaves the store empty.
C11_UpperBlocksFallAfterBothBases ==
    [][(/\ gridData = QuadGrid /\ enableBlockPhysics
        /\ last'.op = "removeBlockByMesh" /\ last'.cell \in {<<0, 0, 0>>, <<1, 0, 0>>})
        => /\ DOMAIN blocks = QuadCells
                => DOMAIN blocks' = QuadCells \ {last'.cell}
           /\ DOMAIN blocks = {last'.cell, <<0, 1, 0>>, <<1, 1, 0>>}
                => blocks' = EmptyStore]_vars

\* the lowest level at or above from that the column (x, z) leaves unoccupied
LowestFreeFrom(b, x, z, from) ==
    CHOOSE l \in from..(MaxLevel + 2) :
        /\ <<x, l, z>> \notin DOMAIN b
        /\ \A k \in from..(l - 1) : <<x, k, z>> \in DOMAIN b

\* C12: placeAboveBlock on a stored block at level L stores a new block at the
\* lowest unoccupied level strictly above L of the same column (a gap left by
\* removals is filled before the top of the column is used), and with physics
\* enabled the placement is never rejected.
C12_TargetIsLowestFreeAbove ==
    \A id \in DOMAIN blocks :
        LET t == placeAboveTarget(blocks, id) IN
        /\ t = LowestFreeFrom(blocks, id[1], id[3], id[2] + 1)
        /\ enableBlockPhysics
             => \A skipValidation \in BOOLEAN :
                   LET r == createBlockAt(blocks, gridData, enableBlockPhysics,
                                          id[1], id[3], t, skipValidation)
                   IN r.accepted /\ DOMAIN r.blocks = DOMAIN blocks \cup {<<id[1], t, id[3]>>}

C12_StepStoresTarget ==
    [][last'.op = "placeAboveBlock"
        => /\ last'.accepted
           /\ last'.cell \notin DOMAIN blocks
           /\ DOMAIN blocks' = DOMAIN blocks \cup {last'.cell}
           /\ \E id \in DOMAIN blocks :
                 /\ id[1] = last'.cell[1] /\ id[3] = last'.cell[3]
                 /\ last'.cell[2] = LowestFreeFrom(blocks, id[1], id[3], id[2] + 1)]_vars

C12_PlaceAboveFillsLowestGap == []C12_TargetIsLowestFreeAbove /\ C12_StepStoresTarget

\* placeAboveBlock has just stored a block in a gap: the level above it is occupied
C12_Witness ==
    /\ last.op = "placeAboveBlock" /\ last.accepted
    /\ last.cell \in DOMAIN blocks
    /\ <<last.cell[1], last.cell[2] + 1, last.cell[3]>> \in DOMAIN blocks

\* the unit step of a face, <<dx, dz>>
FaceStep(face) ==
    CASE face = "east" -> <<1, 0>>
      [] face = "west" -> <<-1, 0>>
      [] face = "north" -> <<0, 1>>
      [] face = "south" -> <<0, -1>>

\* C13: placeAdjacentBlock targets the column one unit from the reference block
\* in the chosen horizontal direction (the given face, else the axis with the
\* larger click offset, on the side of that offset's sign), at the reference's
\* level when that cell is unoccupied and otherwise one level above the highest
\* block of the target column; the target then passes through the normal
\* validation: with physics enabled it is stored exactly when it is supported.
C13_TargetIsAdjacentCell ==
    \A id \in DOMAIN blocks, in \in AdjacentInputs :
        LET t == placeAdjacentTarget(blocks, id, in[1], in[2], in[3])
            dx == t[1] - id[1]
            dz == t[3] - id[3]
            r == createBlockAt(blocks, gridData, enableBlockPhysics, t[1], t[3], t[2], FALSE)
        IN /\ Abs(dx) + Abs(dz) = 1
           /\ in[3] \in Faces => <<dx, dz>> = FaceStep(in[3])
           /\ (in[3] = "none" /\ Abs(in[1]) > Abs(in[2])) => (dz = 0 /\ dx * in[1] > 0)
           /\ (in[3] = "none" /\ Abs(in[2]) > Abs(in[1])) => (dx = 0 /\ dz * in[2] > 0)
           /\ IF <<t[1], id[2], t[3]>> \notin DOMAIN blocks
              THEN t[2] = id[2]
              ELSE /\ <<t[1], t[2] - 1, t[3]>> \in DOMAIN blocks
                   /\ \A c \in DOMAIN blocks : (c[1] = t[1] /\ c[3] = t[3]) => c[2] < t[2]
           /\ t \notin DOMAIN blocks
           /\ IF enableBlockPhysics /\ ~SupportedIn(DOMAIN blocks, gridData, t)
              THEN r = [blocks |-> blocks, accepted |-> FALSE]
              ELSE r.accepted /\ DOMAIN r.blocks = DOMAIN blocks \cup {t}

C13_StepValidatesTarget ==
    [][last'.op = "placeAdjacentBlock"
        => /\ \E id \in DOMAIN blocks :
                 Abs(last'.cell[1] - id[1]) + Abs(last'.cell[3] - id[3]) = 1
           /\ last'.accepted
                 <=> (~enableBlockPhysics \/ SupportedIn(DOMAIN blocks, gridData, last'.cell))
           /\ IF last'.accepted
              THEN DOMAIN blocks' = DOMAIN blocks \cup {last'.cell}
              ELSE blocks' = blocks]_vars

C13_PlaceAdjacentTarget == []C13_TargetIsAdjacentCell /\ C13_StepValidatesTarget

\* placeAdjacentBlock, physics enabled, has just stored a block on top of the
\* target column: no block stands beside the new block at its own level, so the
\* reference block is on a lower level, where the target column was occupied
C13_Witness ==
    /\ last.op = "placeAdjacentBlock" /\ last.accepted /\ enableBlockPhysics
    /\ last.cell \in DOMAIN blocks
    /\ Below(last.cell) \in DOMAIN blocks
    /\ \A pos \in getAdjacentPositions(last.cell[1], last.cell[2], last.cell[3]) :
          pos \notin DOMAIN blocks

\* the unoccupied levels of the column (x, z) under level top
FreeBelow(b, x, z, top) == {l \in 0..(top - 1) : <<x, l, z>> \notin DOMAIN b}

\* C14: placeBelowBlock on a stored block at level L targets the first unoccupied
\* level met scanning downward from L-1; when every level 0..L-1 of the column is
\* occupied (or L is 0) nothing changes; called with skipValidation the block is
\* stored at the target whether or not the target is supported.
C14_TargetIsFirstFreeBelow ==
    \A id \in DOMAIN blocks :
        LET t == placeBelowTarget(blocks, id)
            free == FreeBelow(blocks, id[1], id[3], id[2])
            r == createBlockAt(blocks, gridData, enableBlockPhysics, id[1], id[3], t, TRUE)
        IN IF free = {}
           THEN t < 0
           ELSE /\ t = Max(free)
                /\ r.accepted
                /\ DOMAIN r.blocks = DOMAIN blocks \cup {<<id[1], t, id[3]>>}

C14_StepPlacesOrLeaves ==
    [][last'.op = "placeBelowBlock"
        => IF last'.cell = NoCell
           THEN /\ blocks' = blocks /\ blockCount' = blockCount
                /\ \E id \in DOMAIN blocks : FreeBelow(blocks, id[1], id[3], id[2]) = {}
           ELSE /\ \E id \in DOMAIN blocks :
                      /\ id[1] = last'.cell[1] /\ id[3] = last'.cell[3]
                      /\ FreeBelow(blocks, id[1], id[3], id[2]) # {}
                      /\ last'.cell[2] = Max(FreeBelow(blocks, id[1], id[3], id[2]))
                /\ IF last'.accepted
                   THEN DOMAIN blocks' = DOMAIN blocks \cup {last'.cell}
                   ELSE blocks' = blocks]_vars

C14_PlaceBelowTarget == []C14_TargetIsFirstFreeBelow /\ C14_StepPlacesOrLeaves

\* placeBelowBlock, physics enabled, has just stored a block that nothing supports
C14_Witness ==
    /\ last.op = "placeBelowBlock" /\ last.accepted /\ enableBlockPhysics
    /\ last.cell \in DOMAIN blocks
    /\ ~SupportedIn(DOMAIN blocks \ {last.cell}, gridData, last.cell)

\* C15: placeBelowAtGrid on a grid cell places, validated, at level 0 when the
\* column holds no block; otherwise it places, without validation, at the first
\* unoccupied level met scanning downward from just under the highest occupied
\* level; when every level from 0 to the highest is occupied the store is unchanged.
C15_TargetIsFirstGapUnderTop ==
    \A gp \in gridData :
        LET t == placeBelowAtGridTarget(blocks, gp[1], gp[2])
            occupied == {c[2] : c \in {d \in DOMAIN blocks : d[1] = gp[1] /\ d[3] = gp[2]}}
            r == createBlockAt(blocks, gridData, enableBlockPhysics,
                               gp[1], gp[2], t.level, t.skipValidation)
            stored == r.accepted /\ DOMAIN r.blocks = DOMAIN blocks \cup {<<gp[1], t.level, gp[2]>>}
        IN IF occupied = {}
           THEN t.level = 0 /\ ~t.skipValidation /\ stored
           ELSE LET free == FreeBelow(blocks, gp[1], gp[2], Max(occupied)) IN
                IF free = {} THEN t.level < 0 ELSE t.level = Max(free) /\ stored

C15_StepFillsGapOrLeaves ==
    [][last'.op = "placeBelowAtGrid"
        => IF last'.cell = NoCell
           THEN /\ blocks' = blocks /\ blockCount' = blockCount
                /\ \E gp \in gridData :
                      LET occupied == {c[2] : c \in {d \in DOMAIN blocks :
                                                        d[1] = gp[1] /\ d[3] = gp[2]}}
                      IN occupied # {} /\ FreeBelow(blocks, gp[1], gp[2], Max(occupied)) = {}
           ELSE /\ last'.accepted
                /\ last'.cell \notin DOMAIN blocks
                /\ <<last'.cell[1], last'.cell[3]>> \in gridData
                /\ DOMAIN blocks' = DOMAIN blocks \cup {last'.cell}
                /\ LET occupied == {c[2] : c \in {d \in DOMAIN blocks :
                                         d[1] = last'.cell[1] /\ d[3] = last'.cell[3]}}
                   IN IF occupied = {}
                      THEN last'.cell[2] = 0
                      ELSE last'.cell[2] =
                             Max({-1} \cup FreeBelow(blocks, last'.cell[1], last'.cell[3],
                                                     Max(occupied)))]_vars

C15_PlaceBelowAtGridTarget == []C15_TargetIsFirstGapUnderTop /\ C15_StepFillsGapOrLeaves

\* placeBelowAtGrid, physics enabled, has just stored a block that nothing supports
C15_Witness ==
    /\ last.op = "placeBelowAtGrid" /\ last.accepted /\ enableBlockPhysics
    /\ last.cell \in DOMAIN blocks
    /\ ~SupportedIn(DOMAIN blocks \ {last.cell}, gridData, last.cell)

\* C16: placeAtLowestAvailableAtGrid on a grid cell stores a new block at the
\* lowest unoccupied level of that column, counted from 0, so a column fills
\* bottom-up; with physics enabled the placement is never rejected.
C16_TargetIsLowestFree ==
    \A gp \in gridData :
        LET t == placeLowestTarget(blocks, gp[1], gp[2])
            r == createBlockAt(blocks, gridData, enableBlockPhysics, gp[1], gp[2], t, FALSE)
        IN /\ t = LowestFreeFrom(blocks, gp[1], gp[2], 0)
           /\ r.accepted
           /\ DOMAIN r.blocks = DOMAIN blocks \cup {<<gp[1], t, gp[2]>>}

C16_StepStoresLowest ==
    [][last'.op = "placeAtLowestAvailableAtGrid"
        => /\ last'.accepted
           /\ <<last'.cell[1], last'.cell[3]>> \in gridData
           /\ last'.cell \notin DOMAIN blocks
           /\ last'.cell[2] = LowestFreeFrom(blocks, last'.cell[1], last'.cell[3], 0)
           /\ DOMAIN blocks' = DOMAIN blocks \cup {last'.cell}]_vars

C16_PlaceAtLowestAvailable == []C16_TargetIsLowestFree /\ C16_StepStoresLowest

\* placeAtLowestAvailableAtGrid has just stored a block under a block of the
\* column, in a level a removal had left unoccupied
C16_Witness ==
    /\ last.op = "placeAtLowestAvailableAtGrid" /\ last.accepted
    /\ last.cell \in DOMAIN blocks
    /\ \E c \in DOMAIN blocks :
          c[1] = last.cell[1] /\ c[3] = last.cell[3] /\ c[2] > last.cell[2]

\* C17: a toggleBlockPhysics that switches physics from disabled to enabled runs
\* the cascade to its fixed point before it returns: afterwards no stored block
\* fails the support check, whatever the store held, and the blocks that stay are
\* blocks of the prior store, untouched; a toggle from enabled to disabled
\* changes no block.
C17_ToggleRunsCascadeToFixedPoint ==
    [][last'.op = "toggleBlockPhysics"
        => IF ~enableBlockPhysics
           THEN /\ enableBlockPhysics'
                /\ findUnsupportedBlocks(blocks', gridData') = {}
                /\ \A c \in DOMAIN blocks' :
                      /\ hasSupport(blocks', gridData', c[1], c[2], c[3])
                      /\ SupportedIn(DOMAIN blocks', gridData', c)
                      /\ c \in DOMAIN blocks /\ blocks'[c] = blocks[c]
                /\ last'.removed = Size(blocks) - Size(blocks')
           ELSE /\ ~enableBlockPhysics'
                /\ blocks' = blocks /\ blockCount' = blockCount
                /\ last'.removed = 0]_vars

\* physics has just been switched on over a store that held unsupported blocks:
\* the cascade removed some blocks and left others
C17_Witness ==
    /\ last.op = "toggleBlockPhysics" /\ enableBlockPhysics
    /\ last.removed > 0 /\ blocks # EmptyStore

\* the cells reached from the cells of F in at most n steps, each step to a
\* horizontally adjacent cell of S
RECURSIVE WithinSteps(_, _, _)
WithinSteps(S, F, n) ==
    IF n = 0 THEN F
    ELSE LET F2 == F \cup {d \in S : \E r \in F : d \in getAdjacentPositions(r[1], r[2], r[3])}
         IN IF F2 = F THEN F ELSE WithinSteps(S, F2, n - 1)

\* k cells that hold no block of the lines
FarCells(k) == {<<x, 5, 5>> : x \in 1..k}

\* C18: the support search never fails or loops. hasIndirectSupport returns
\* false whenever its visited set already holds more than 20 cells (and searches
\* on with 20); so a cell at the end of a same-level line of blocks is reported
\* supported exactly when a block that is grounded at level 0 or has a block
\* directly beneath it lies within 20 horizontal steps along occupied cells, and
\* unsupported when every such block is farther away. The cell's own ground
\* contact counts in validateBlockPlacement; hasSupport counts the block under
\* the cell and the blocks around it.
C18_SearchStopsAtTwentyCells ==
    /\ \A c \in DOMAIN blocks :
          /\ \A k \in 21..MaxChain :
                ~hasIndirectSupport(blocks, gridData, c[1], c[2], c[3], FarCells(k))
          /\ BaseSupported(DOMAIN blocks, gridData, c)
                => hasIndirectSupport(blocks, gridData, c[1], c[2], c[3], FarCells(20))
    /\ \A c \in ChainCells :
          LET near == WithinSteps(DOMAIN blocks, {c}, 20) IN
          /\ validateBlockPlacement(blocks, gridData, c[1], c[2], c[3])
                <=> \E d \in near : BaseSupported(DOMAIN blocks, gridData, d)
          /\ hasSupport(blocks, gridData, c[1], c[2], c[3])
                <=> \/ Below(c) \in DOMAIN blocks
                    \/ \E d \in near \ {c} : BaseSupported(DOMAIN blocks, gridData, d)

\* a line of 22 blocks stands with physics enabled, its only grounded block at
\* one end: the block 20 steps away is reported supported, the block 21 steps
\* away is not
C18_Witness ==
    /\ enableBlockPhysics /\ gridData = ChainGrid
    /\ {<<x, 0, 0>> : x \in 0..21} \subseteq DOMAIN blocks
    /\ \A x \in 0..21 : <<x, 1, 0>> \notin DOMAIN blocks
    /\ hasSupport(blocks, gridData, 20, 0, 0)
    /\ ~hasSupport(blocks, gridData, 21, 0, 0)

\* C19: removeUnsupportedBlocks terminates for every finite store: every pass of
\* its loop that finds unsupported blocks strictly shrinks the store, the loop
\* stops at the first pass that finds none, and the passes together do what the
\* whole call does.
C19_PassShrinksOrStops ==
    [][last.op = InLoop
        => /\ IF findUnsupportedBlocks(blocks, gridData) # {}
              THEN /\ Size(blocks') < Size(blocks)
                   /\ DOMAIN blocks' \subseteq DOMAIN blocks
                   /\ last'.op = InLoop
              ELSE /\ blocks' = blocks
                   /\ last'.op = "removeUnsupportedBlocks"
                   /\ last'.removed = last.removed
           /\ cascadeLoop(blocks', gridData', last'.removed)
                 = cascadeLoop(blocks, gridData, last.removed)]_vars

C19_LoopReturns == (last.op = InLoop) ~> (last.op = "removeUnsupportedBlocks")

C19_CascadeTerminates == C19_PassShrinksOrStops /\ C19_LoopReturns

\* the loop has removed blocks in a pass and its next pass finds more
C19_Witness ==
    /\ last.op = InLoop /\ last.removed > 0
    /\ findUnsupportedBlocks(blocks, gridData) # {}

\* C20: removeBlock on a grid column that holds no block changes nothing: the
\* store, with every block's height and position, and the count stay as they
\* were, and no cascade removal is performed, even when the store holds
\* unsupported blocks in other columns.
C20_RemoveBlockOnEmptyColumn ==
    [][(last'.op = "removeBlock" /\ last'.cell[2] = -1)
        => /\ <<last'.cell[1], last'.cell[3]>> \in gridData
           /\ ColumnIds(blocks, last'.cell[1], last'.cell[3]) = {}
           /\ blocks' = blocks
           /\ blockCount' = blockCount
           /\ last'.removed = 0
           /\ UNCHANGED <<enableBlockPhysics, gridData>>]_vars

\* removeBlock has just returned from an empty column, with physics enabled and
\* a block in the store that the cascade would have removed
C20_Witness ==
    /\ last.op = "removeBlock" /\ last.cell[2] = -1
    /\ enableBlockPhysics
    /\ findUnsupportedBlocks(blocks, gridData) # {}

\* C21: while physics is disabled, createBlockAt accepts every target cell
\* whether or not it is supported, and removeBlock / removeBlockByMesh delete
\* exactly the one addressed block, with no cascade; a placement is rejected for
\* lack of support only when physics is enabled and skipValidation is not set.
C21_PlacementEnforcedOnlyWithPhysics ==
    \A c \in Cells, skipValidation \in BOOLEAN :
        LET r == createBlockAt(blocks, gridData, enableBlockPhysics,
                               c[1], c[3], c[2], skipValidation)
        IN /\ r.accepted <=> (\/ ~enableBlockPhysics
                              \/ skipValidation
                              \/ SupportedIn(DOMAIN blocks, gridData, c))
           /\ r.accepted => c \in DOMAIN r.blocks

C21_RemovalWithoutPhysics ==
    [][(~enableBlockPhysics /\ last'.op \in {"removeBlock", "removeBlockByMesh"}
        /\ last'.cell \in DOMAIN blocks)
        => /\ DOMAIN blocks' = DOMAIN blocks \ {last'.cell}
           /\ \A id \in DOMAIN blocks' : blocks'[id] = blocks[id]
           /\ last'.removed = 0]_vars

C21_PhysicsDisabled == []C21_PlacementEnforcedOnlyWithPhysics /\ C21_RemovalWithoutPhysics

\* physics is disabled and a removal has just left a block in the store that
\* the cascade would have removed
C21_Witness ==
    /\ ~enableBlockPhysics
    /\ last.op \in {"removeBlock", "removeBlockByMesh"} /\ last.cell[2] >= 0
    /\ findUnsupportedBlocks(blocks, gridData) # {}
    /\ \E c \in DOMAIN blocks : ~SupportedIn(DOMAIN blocks, gridData, c)

\* C22: once gridGenerated has been dispatched for the current boundary, the
\* 15 s timer of transitionToLoading never sets window.__abortGeneration and
\* never shows the alert, however the timer falls between the dispatch, the
\* 1200 ms delayed transitionToBuilder and the 100 ms delayed stage switch.
C22_NoTimeoutAfterGridGenerated ==
    [][app.run.pc = "dispatched"
        => (app'.abort = app.abort /\ app'.alerted = app.alerted)]_vars

\* C23: while physics stays enabled, after every user operation (placeAboveBlock,
\* placeBelowBlock with skipValidation, placeAdjacentBlock,
\* placeAtLowestAvailableAtGrid, placeBelowAtGrid, removeBlock, removeBlockByMesh)
\* every stored block is supported under the support relation.
C23_EveryStoredBlockSupported ==
    enableBlockPhysics
        => \A c \in DOMAIN blocks : SupportedIn(DOMAIN blocks, gridData, c)

\* the neighbours of a cell in the order getAdjacentPositions lists them
adjacentOrder(c) ==
    <<<<c[1] + 1, c[2], c[3]>>, <<c[1] - 1, c[2], c[3]>>,
      <<c[1], c[2], c[3] + 1>>, <<c[1], c[2], c[3] - 1>>>>

\* the search of hasIndirectSupport with one visited set for the whole call:
\* every recursive call adds to the set it was given and hands the set on to the
\* calls after it, under the same bound on the size of the set
RECURSIVE sharedIndirect(_, _, _, _)
RECURSIVE sharedEach(_, _, _, _, _)
sharedIndirect(b, g, c, visited) ==
    IF c \in visited \/ Cardinality(visited) > VisitedLimit
    THEN [found |-> FALSE, visited |-> visited]
    ELSE LET v2 == visited \cup {c} IN
         IF (c[2] = 0 /\ isGroundLevel(g, c[1], c[3])) \/ Has(b, Below(c))
         THEN [found |-> TRUE, visited |-> v2]
         ELSE sharedEach(b, g, adjacentOrder(c), 1, v2)

sharedEach(b, g, order, i, visited) ==
    IF i > Len(order) THEN [found |-> FALSE, visited |-> visited]
    ELSE IF Has(b, order[i]) /\ order[i] \notin visited
         THEN LET r == sharedIndirect(b, g, order[i], visited) IN
              IF r.found THEN r ELSE sharedEach(b, g, order, i + 1, r.visited)
         ELSE sharedEach(b, g, order, i + 1, visited)

\* hasSupport over the shared search
sharedSupport(b, g, c) ==
    \/ Has(b, Below(c))
    \/ sharedEach(b, g, adjacentOrder(c), 1, {c}).found

\* the occupied same-level component of a cell, the cell included
LevelComponent(b, c) == Component(DOMAIN b \cup {c}, {c})

\* C24 as stated: for every store and every queried cell, the support search of
\* the source (a copy of the visited set for each branch, giving up when the set
\* holds more than 20 cells) returns the same boolean as the search that shares
\* one visited set across the whole call under the same bound.
C24_SharedVisitedSetEquivalent ==
    \A c \in ChainCells :
        hasSupport(blocks, gridData, c[1], c[2], c[3]) <=> sharedSupport(blocks, gridData, c)

\* C24 as amended: the two searches return the same boolean for every queried
\* cell whose same-level occupied component, the cell included, holds at most 21
\* cells (the bound then stops neither search); for any component the shared
\* search reports support only where the search of the source does.
C24_SharedVisitedSetWithinBound ==
    \A c \in ChainCells :
        LET source == hasSupport(blocks, gridData, c[1], c[2], c[3])
            shared == sharedSupport(blocks, gridData, c)
        IN /\ Cardinality(LevelComponent(blocks, c)) <= VisitedLimit + 1
                => (source <=> shared)
           /\ shared => source

\* a level-1 line of 21 blocks hangs off the block over the grid cell: queried
\* at its second cell, both searches walk 19 cells east first, return with 20
\* cells visited and then find the supported block to the west
C24_Witness ==
    /\ gridData = ChainGrid
    /\ DOMAIN blocks = {<<0, 0, 0>>} \cup {<<x, 1, 0>> : x \in 0..20}
    /\ Cardinality(LevelComponent(blocks, <<1, 1, 0>>)) = VisitedLimit + 1
    /\ hasSupport(blocks, gridData, 1, 1, 0)
    /\ sharedSupport(blocks, gridData, <<1, 1, 0>>)

\* the ids of the blocks on the list unsupportedBlocks
Listed(list) == {list[k].id : k \in 1..Len(list)}

\* C25: within one pass of the cascade every block's support is evaluated against
\* the store as it was at the start of the pass, and no block is deleted until
\* the scan of the pass has finished: whatever the order in which forEach visits
\* the blocks, the blocks collected in a pass are the unsupported blocks of the
\* store at the start of the pass, and the call ends with the result of the
\* order-free cascade.
C25_ScanReadsPassStart ==
    /\ pass.phase = "scan"
          => /\ blocks = pass.start
             /\ Listed(pass.unsupportedBlocks)
                   = {i \in pass.scanned :
                         ~hasSupport(pass.start, gridData, i[1], i[2], i[3])}
    /\ pass.phase = "delete"
          => LET found == findUnsupportedBlocks(pass.start, gridData) IN
             /\ Listed(pass.unsupportedBlocks) \subseteq found
             /\ blocks = Delete(pass.start, found \ Listed(pass.unsupportedBlocks))
             /\ pass.hasUnsupported <=> found # {}

C25_ResultOrderFree ==
    [][(pass.phase = "delete" /\ pass'.phase = "idle")
        => LET r == cascadeLoop(pass.call, gridData, 0) IN
           /\ blocks' = r.blocks
           /\ last'.removed = r.removed]_vars

C25_PassSnapshot == []C25_ScanReadsPassStart /\ C25_ResultOrderFree

\* the scan has put a block on the list and comes next to a block that is
\* supported in the store and would not be once the listed block were deleted
C25_Witness ==
    /\ pass.phase = "scan"
    /\ pass.unsupportedBlocks # <<>>
    /\ \E id \in DOMAIN blocks \ pass.scanned :
          /\ hasSupport(blocks, gridData, id[1], id[2], id[3])
          /\ ~hasSupport(Delete(blocks, Listed(pass.unsupportedBlocks)), gridData,
                         id[1], id[2], id[3])

DerivedOps ==
    {"placeAboveBlock", "placeBelowBlock", "placeAdjacentBlock",
     "placeAtLowestAvailableAtGrid", "placeBelowAtGrid", "addOrStackBlock", "stackVertically"}

\* C26: every derived placement operation (placeAboveBlock, placeBelowBlock,
\* placeAdjacentBlock, placeAtLowestAvailableAtGrid, placeBelowAtGrid,
\* addOrStackBlock, stackVertically) targets only an unoccupied cell at a level
\* >= 0; a successful placement raises the number of blocks by exactly one,
\* leaves every record stored before under its own key and stores the new record
\* under the key of its own coordinates; a rejected one leaves the store as it was.
C26_DerivedPlacementAddsOneBlock ==
    [][(last'.op \in DerivedOps /\ last'.cell # NoCell)
        => /\ last'.cell \notin DOMAIN blocks
           /\ last'.cell[2] >= 0
           /\ IF last'.accepted
              THEN /\ DOMAIN blocks' = DOMAIN blocks \cup {last'.cell}
                   /\ Size(blocks') = Size(blocks) + 1
                   /\ blockCount' = Size(blocks')
                   /\ \A id \in DOMAIN blocks' :
                         /\ blocks'[id].id = id
                         /\ <<blocks'[id].x, blocks'[id].yLevel, blocks'[id].z>> = id
              ELSE blocks' = blocks]_vars

\* stackVertically has just stored a block at level 2 or above: the column held
\* blocks above the one it may have been called with
C26_Witness ==
    /\ last.op = "stackVertically"
    /\ last.cell \in DOMAIN blocks
    /\ last.cell[2] >= 2
    /\ blockCount = Size(blocks)

\* C27: after any sequence of the placement operations of BlockSystem (the
\* operations over createBlockAt, addOrStackBlock, stackVertically) and removals,
\* every block at level >= 1 has the height of one unit, and a level-0 block has
\* the reduced height (0.22) only while no block is stored at level 1 of its column.
C27_ThinBaseOnlyWithoutSecondBlock ==
    \A id \in DOMAIN blocks :
        /\ id[2] >= 1 => blocks[id].height = blockSize
        /\ (id[2] = 0 /\ blocks[id].height = thinHeight)
              => <<id[1], 1, id[3]>> \notin DOMAIN blocks

\* C28: in BlockBuilder, whose cascade loop is
\* while (hasUnsupported && removedCount < 100), the limit never ends the loop
\* while an unsupported block remains: when removeUnsupportedBlocks has run with
\* physics enabled (after a removal or on enabling physics) no stored block is
\* unsupported, for stores of any size.
C28_LimitNeverCutsCascade ==
    (enableBlockPhysics /\ last.op \in {"toggleBlockPhysics", "removeBlockByMesh"})
        => findUnsupportedBlocks(blocks, gridData) = {}

\* the grid items exportModelData keeps: those with blockHeight > 0
Exported == IF gridItems = NoGenerator THEN {} ELSE gridItems

\* C29: a grid cell is marked with blockHeight > 0 in the export data of the
\* generator exactly when the store holds a level-0 block at that cell.
C29_ExportMarksGroundBlocks ==
    \A gp \in gridData :
        gp \in Exported <=> <<gp[1], 0, gp[2]>> \in DOMAIN blocks

\* C30: if the loading timeout sets the abort flag while the generation is still
\* running, that run of generateGrid dispatches no gridGenerated: from then on
\* the run only goes on to its silent return (or to its error for a boundary
\* without points), setupGrid is never handed a grid by it, and the app is not
\* taken to the builder stage for it.
C30_NoGridFromAbortedRun ==
    (app.abort /\ app.run.pc \in Running \cup {"returned", "empty"})
        => /\ gridData = {}
           /\ app.currentStage # "builder"
           /\ \A t \in app.timers : t.kind \notin {"builder"}

C30_AbortedRunOnlyReturns ==
    [][(app.abort /\ app.run.pc \in Running)
        => /\ app'.abort
           /\ app'.run.pc \in Running \cup {"returned", "empty"}]_vars

C30_AbortedRunDispatchesNothing ==
    []C30_NoGridFromAbortedRun /\ C30_AbortedRunOnlyReturns

\* the timeout fired during the generation of a boundary that holds grid points,
\* and the run has returned on the flag
C30_Witness ==
    /\ app.abort /\ app.alerted
    /\ app.run.pc = "returned"
    /\ app.currentStage = "loading"

====
